---- MODULE Spec2Model ----
(***************************************************************************)
(* A model of `credit`, a tool that measures Github repository             *)
(* contributions.  These parts of the program are modelled:                *)
(*                                                                         *)
(*   - the issue / pull-request pager, repo::issues and repo::issues_work  *)
(*     (specification SpecIssues);                                         *)
(*   - the user-search pager, contribs::user_contributions and             *)
(*     contribs::user_contributions_work (SpecUsers, and SpecUsersFair     *)
(*     for its termination);                                               *)
(*   - the `repo` command of main.rs, which fetches several repositories   *)
(*     and combines what succeeded (SpecRepo);                             *)
(*   - repo_threads with the requests of its two fetches (SpecJoin);       *)
(*   - issue_thread (SpecThread) and Postings::statistics (SpecStats);     *)
(*   - Postings::combine followed by statistics (SpecCombine);             *)
(*   - Statistics written as JSON and read back (SpecJson);                *)
(*   - all_issues and all_prs over a whole listing (SpecEarly).            *)
(*                                                                         *)
(* The Github server is the environment: every response to a request is    *)
(* chosen nondeterministically, and the requests sent and the responses    *)
(* received are logged so that properties can be stated over them.         *)
(***************************************************************************)
EXTENDS Integers, Sequences, FiniteSets, TLC

(***************************************************************************)
(* Bounds of the model.                                                    *)
(***************************************************************************)
\* The largest number of items (issues or PRs) the server holds for a repository.
MaxItems == 4
\* The largest number of pages the server splits a repository's items into.
MaxPages == 3
\* Timestamps are 1..MaxDate.
MaxDate == 3

(***************************************************************************)
(* Option<T> and anyhow::Result<T>.                                        *)
(***************************************************************************)
None == <<>>
Some(x) == <<x>>
IsSome(o) == o # <<>>

Ok(v) == [ok |-> TRUE, val |-> v, err |-> "none"]
Err(e) == [ok |-> FALSE, val |-> <<>>, err |-> e]

RECURSIVE Flatten(_)
\* The concatenation of a sequence of sequences.
Flatten(ss) == IF ss = <<>> THEN <<>> ELSE Head(ss) \o Flatten(Tail(ss))

VARIABLES
  \* ---- the issue / PR pager (repo.rs) ----
  end,        \* the `end` argument of repo::issues: Option<DateTime<Utc>>
  ipc,        \* "call": a call of issues_work is about to send its request; "done": issues returned
  page,       \* the `page` argument of the innermost call of issues_work: Option<cursor>
  frames,     \* the `issues` local of every suspended call of issues_work, outermost first
  result,     \* what repo::issues returned
  requests,   \* log: the `after` cursor of every request sent
  responses,  \* log: the outcome of every request
  \* ---- the user-search pager (contribs.rs) ----
  upc,        \* "call": a call of user_contributions_work is about to send its request; "done"
  upage,      \* the `page` argument of the innermost call: Option<cursor>
  page_num,   \* the `page_num` argument of the innermost call
  attempts,   \* the `attempts` argument of the innermost call
  uframes,    \* the `users` local of every suspended call that fetched a page, outermost first
  uresult,    \* what contribs::user_contributions returned
  tries,      \* log: the requests sent so far for page number page_num
  fetched,    \* log: the number of pages that were fetched and decoded
  ulast,      \* log: the request sent last and its outcome
  \* ---- the `repo` command (main.rs) ----
  repos,      \* r.repos: the repositories given, a sequence
  r_start,    \* r.start: Option<DateTime<Utc>>
  r_end,      \* r.end: Option<DateTime<Utc>>
  r_serial,   \* r.serial: each repository fetches its pull requests after its issues
  rpc,        \* "fetch": the parallel map over the repositories runs; "done": repo returned
  asked,      \* per repository, the fetches (issues, prs) that repo_threads has started
  fetches,    \* per repository and fetch, what repo::issues returned (None while it has not)
  threads,    \* per repository, what repo_threads returned (None while it has not)
  reported,   \* the errors written to stderr after "There were some errors:"
  output,     \* what repo returned: the Statistics its string renders, or the error
  \* ---- repo_threads with its two fetches (lib.rs) ----
  serial,     \* the `serial` argument of repo_threads
  j_start,    \* the `start` argument of repo_threads
  j_end,      \* the `end` argument of repo_threads
  jpc,        \* per fetch, "call": issues_work is about to send a request; "wait": the
              \* request is sent and not answered (client.post); "done": it returned
  jpage,      \* per fetch, the `page` argument of the innermost call of issues_work
  jframes,    \* per fetch, the `issues` local of every suspended call, outermost first
  jresult,    \* per fetch, what repo::issues returned
  jlog,       \* log: per fetch, every request answered (its cursor) with its outcome
  order,      \* log: the fetch that sent the last request, how often the sender changed,
              \* and whether a request was sent while one of the other fetch was not answered
  postings,   \* what repo_threads returned
  \* ---- issue_thread (lib.rs) ----
  t_issue,    \* the repo::Issue that issue_thread is given
  thread,     \* the Thread that issue_thread returned, None before it has
  \* ---- Postings::statistics (lib.rs) ----
  given,      \* the Postings that statistics is called on
  stats,      \* the Statistics that it returned, None before it has
  \* ---- Postings::combine followed by statistics (lib.rs, main.rs) ----
  c_self,     \* the Postings that combine is called on
  c_other,    \* the Postings that combine is given
  combined,   \* the Postings that combine returned, None before it has
  cstats,     \* the Statistics of the combined Postings, None before statistics has returned
  \* ---- `repo --json` piped into `json` (main.rs) ----
  saved,      \* the Statistics that `repo --json` serializes
  text,       \* the JSON that `repo --json` printed, None before it has
  loaded,     \* what serde_json::from_str gave the `json` command, None before it ran
  \* ---- all_issues and all_prs over a whole listing of the server (lib.rs, repo.rs) ----
  e_mode,     \* what is listed: "issues" or "prs" (repo::Mode)
  script,     \* the pages the server holds, in the order it serves them
  e_start,    \* the optional `--start` date
  e_end,      \* the optional `--end` date
  listed      \* what all_issues returned, None before it has

ivars == <<end, ipc, page, frames, result, requests, responses>>
uvars == <<upc, upage, page_num, attempts, uframes, uresult, tries, fetched, ulast>>
rvars == <<repos, r_start, r_end, r_serial, rpc, asked, fetches, threads, reported, output>>
jvars == <<serial, j_start, j_end, jpc, jpage, jframes, jresult, jlog, order, postings>>
tvars == <<t_issue, thread>>
svars == <<given, stats>>
cvars == <<c_self, c_other, combined, cstats>>
kvars == <<saved, text, loaded>>
evars == <<e_mode, script, e_start, e_end, listed>>
vars == <<ivars, uvars, rvars, jvars, tvars, svars, cvars, kvars, evars>>

\* What a step of each part leaves alone.
not_ivars == <<uvars, rvars, jvars, tvars, svars, cvars, kvars, evars>>
not_uvars == <<ivars, rvars, jvars, tvars, svars, cvars, kvars, evars>>
not_rvars == <<ivars, uvars, jvars, tvars, svars, cvars, kvars, evars>>
not_jvars == <<ivars, uvars, rvars, tvars, svars, cvars, kvars, evars>>
not_tvars == <<ivars, uvars, rvars, jvars, svars, cvars, kvars, evars>>
not_svars == <<ivars, uvars, rvars, jvars, tvars, cvars, kvars, evars>>
not_cvars == <<ivars, uvars, rvars, jvars, tvars, svars, kvars, evars>>
not_kvars == <<ivars, uvars, rvars, jvars, tvars, svars, cvars, evars>>
not_evars == <<ivars, uvars, rvars, jvars, tvars, svars, cvars, kvars>>

(***************************************************************************)
(* The Github server, as the issue / PR pager sees it.                     *)
(***************************************************************************)
\* The optional `end` dates a user can give.
Ends == {None} \cup {Some(d) : d \in 1..MaxDate}

\* The created_at values of a page of at most m items, in any order.
DateSeqs(m) == UNION {[1..k -> 1..MaxDate] : k \in 0..m}

\* The items of a page: the id of an item is its position in the server's order.
MkItems(used, ds) == [i \in 1..Len(ds) |-> [id |-> used + i, created_at |-> ds[i]]]

\* A page that decoded: github::Paged<Issue> with its PageInfo.
OkPage(edges, h, c) == [kind |-> "ok", edges |-> edges, has_next_page |-> h, end_cursor |-> c]

\* A request that failed: client.post (Http), resp.text (Io) or serde_json::from_str (Json).
Failure(k) == [kind |-> k, edges |-> <<>>, has_next_page |-> FALSE, end_cursor |-> None]

FailureKinds == {"post", "text", "decode"}

\* The number of items in the pages served so far.
Served(rs) == Len(Flatten([k \in 1..Len(rs) |-> rs[k].edges]))

\* Every outcome of request number n.  The source is finite: it has at most
\* MaxItems items in at most MaxPages pages, so page MaxPages does not
\* announce a further page.  The cursor that follows page n is n.
ServerResponses(n, used) ==
  {Failure(k) : k \in FailureKinds} \cup
  {pg \in {OkPage(MkItems(used, ds), h, c) :
              ds \in DateSeqs(MaxItems - used), h \in BOOLEAN, c \in {None, Some(n)}} :
      n < MaxPages \/ ~(pg.has_next_page /\ IsSome(pg.end_cursor))}

(***************************************************************************)
(* repo::issues_work.                                                      *)
(***************************************************************************)
\* A slip: the first item of the page is looked at instead of the last.
StopEarly_First(e, issues) ==
  IF e = None \/ issues = <<>> THEN FALSE
  ELSE issues[1].created_at > e[1]

\* A slip: the pager also stops when the last item was created at `end`.
StopEarly_AtEnd(e, issues) ==
  IF e = None \/ issues = <<>> THEN FALSE
  ELSE issues[Len(issues)].created_at >= e[1]

\* repo.rs 178-180: has the last item of the page been created after `end`?
StopEarly(e, issues) ==
  IF e = None \/ issues = <<>> THEN FALSE
  ELSE issues[Len(issues)].created_at > e[1]

\* repo.rs 182-183: `Some(c) if info.has_next_page && !stop_early`.
Continues(info, stop_early) ==
  IsSome(info.end_cursor) /\ info.has_next_page /\ ~stop_early

\* A slip: the recursive call is given the cursor of the current call again.
NextCursor_Stale(info) == page

\* repo.rs 184: the cursor the recursive call is given.
NextCursor(info) == info.end_cursor

\* A slip: only the items up to `end` are returned from the last page.
ReturnLast_Filtered(issues) ==
  Ok(SelectSeq(issues, LAMBDA i : end = None \/ i.created_at <= end[1]))

\* repo.rs 188: `_ => Ok(issues)`.
ReturnLast(issues) == Ok(issues)

\* A slip: the next pages' items are put before this page's.
ReturnFrame_Swapped(issues, next) ==
  IF next.ok THEN Ok(next.val \o issues) ELSE next

\* A slip: an error of a later page is dropped and this page's items returned.
ReturnFrame_Swallows(issues, next) ==
  IF next.ok THEN Ok(issues \o next.val) ELSE Ok(issues)

\* repo.rs 184-186: `let mut next = issues_work(..)?; issues.append(&mut next); Ok(issues)`.
ReturnFrame(issues, next) ==
  IF next.ok THEN Ok(issues \o next.val) ELSE next

RECURSIVE UnwindRange(_, _, _, _)
\* The return through the suspended calls lo..hi, innermost (hi) first.  The
\* range is split in two, and the inner half is evaluated (it is Ok or Err)
\* before the outer half is entered, so that the evaluation nests only
\* log(hi - lo) deep.
UnwindRange(fs, lo, hi, r) ==
  IF lo > hi THEN r
  ELSE IF lo = hi THEN ReturnFrame(fs[lo], r)
  ELSE LET mid == (lo + hi) \div 2
           inner == UnwindRange(fs, mid + 1, hi, r)
       IN  IF inner.ok \in BOOLEAN THEN UnwindRange(fs, lo, mid, inner) ELSE inner

\* The return through every suspended call, innermost first.
Unwind(fs, r) == UnwindRange(fs, 1, Len(fs), r)

\* A slip: a failed request is sent again.
AfterFailure_Retry == "call"

\* repo.rs 163-170: each `?` returns from issues_work, so the call is over.
AfterFailure == "done"

\* repo.rs 161-170: the request fails (`?`), and the error returns through every caller.
IssuesWorkFails ==
  /\ ipc = "call"
  /\ \E r \in ServerResponses(Len(requests) + 1, Served(responses)) :
       /\ r.kind # "ok"
       /\ requests' = Append(requests, page)
       /\ responses' = Append(responses, r)
       /\ result' = Unwind(frames, Err(r.kind))
       /\ ipc' = AfterFailure
       /\ UNCHANGED <<end, page, frames>>

\* repo.rs 172-187: the page decodes and a further page is asked for.
IssuesWorkRecurses ==
  /\ ipc = "call"
  /\ \E r \in ServerResponses(Len(requests) + 1, Served(responses)) :
       /\ r.kind = "ok"
       /\ Continues(r, StopEarly(end, r.edges))
       /\ requests' = Append(requests, page)
       /\ responses' = Append(responses, r)
       /\ frames' = Append(frames, r.edges)
       /\ page' = NextCursor(r)
       /\ UNCHANGED <<end, ipc, result>>

\* repo.rs 172-189: the page decodes and is the last one asked for.
IssuesWorkReturns ==
  /\ ipc = "call"
  /\ \E r \in ServerResponses(Len(requests) + 1, Served(responses)) :
       /\ r.kind = "ok"
       /\ ~Continues(r, StopEarly(end, r.edges))
       /\ requests' = Append(requests, page)
       /\ responses' = Append(responses, r)
       /\ result' = Unwind(frames, ReturnLast(r.edges))
       /\ ipc' = "done"
       /\ UNCHANGED <<end, page, frames>>

\* The issue / PR pager is not running.
IdleIssues ==
  /\ end = None
  /\ ipc = "idle"
  /\ page = None
  /\ frames = <<>>
  /\ result = Err("pending")
  /\ requests = <<>>
  /\ responses = <<>>

\* The user-search pager is not running.
IdleUsers ==
  /\ upc = "idle"
  /\ upage = None
  /\ page_num = 1
  /\ attempts = 1
  /\ uframes = <<>>
  /\ uresult = Err("pending")
  /\ tries = 0
  /\ fetched = 0
  /\ ulast = [kind |-> "none", edges |-> <<>>, has_next_page |-> FALSE, end_cursor |-> None,
              page |-> None, page_num |-> 0]

\* The `repo` command is not running.
IdleRepo ==
  /\ repos = <<>>
  /\ r_start = None
  /\ r_end = None
  /\ r_serial = FALSE
  /\ rpc = "idle"
  /\ asked = <<>>
  /\ fetches = <<>>
  /\ threads = <<>>
  /\ reported = <<>>
  /\ output = Err("pending")

\* The two fetches of repo_threads.
Branches == {"issues", "prs"}

\* repo_threads is not running.
IdleJoin ==
  /\ serial = TRUE
  /\ j_start = None
  /\ j_end = None
  /\ jpc = [b \in Branches |-> "idle"]
  /\ jpage = [b \in Branches |-> None]
  /\ jframes = [b \in Branches |-> <<>>]
  /\ jresult = [b \in Branches |-> Err("pending")]
  /\ jlog = [b \in Branches |-> <<>>]
  /\ order = [last |-> "none", switches |-> 0, overlapped |-> FALSE]
  /\ postings = Err("pending")

\* issue_thread is not running.
IdleThread ==
  /\ t_issue = <<>>
  /\ thread = None

\* Postings::statistics is not running.
IdleStats ==
  /\ given = <<>>
  /\ stats = None

\* Postings::combine is not running.
IdleCombine ==
  /\ c_self = <<>>
  /\ c_other = <<>>
  /\ combined = None
  /\ cstats = None

\* Neither `repo --json` nor `json` is running.
IdleJson ==
  /\ saved = <<>>
  /\ text = None
  /\ loaded = None

\* Neither all_issues nor all_prs is running over a listing.
IdleEarly ==
  /\ e_mode = "issues"
  /\ script = <<>>
  /\ e_start = None
  /\ e_end = None
  /\ listed = None

\* Every part but the issue / PR pager is idle.
IdleButIssues == IdleUsers /\ IdleRepo /\ IdleJoin /\ IdleThread /\ IdleStats /\ IdleCombine /\ IdleJson /\ IdleEarly

\* Every part but the user-search pager is idle.
IdleButUsers == IdleIssues /\ IdleRepo /\ IdleJoin /\ IdleThread /\ IdleStats /\ IdleCombine /\ IdleJson /\ IdleEarly

\* Every part but the `repo` command is idle.
IdleButRepo == IdleIssues /\ IdleUsers /\ IdleJoin /\ IdleThread /\ IdleStats /\ IdleCombine /\ IdleJson /\ IdleEarly

\* Every part but repo_threads is idle.
IdleButJoin == IdleIssues /\ IdleUsers /\ IdleRepo /\ IdleThread /\ IdleStats /\ IdleCombine /\ IdleJson /\ IdleEarly

\* Every part but issue_thread is idle.
IdleButThread == IdleIssues /\ IdleUsers /\ IdleRepo /\ IdleJoin /\ IdleStats /\ IdleCombine /\ IdleJson /\ IdleEarly

\* Every part but Postings::statistics is idle.
IdleButStats == IdleIssues /\ IdleUsers /\ IdleRepo /\ IdleJoin /\ IdleThread /\ IdleCombine /\ IdleJson /\ IdleEarly

\* Every part but Postings::combine is idle.
IdleButCombine == IdleIssues /\ IdleUsers /\ IdleRepo /\ IdleJoin /\ IdleThread /\ IdleStats /\ IdleJson /\ IdleEarly

\* Every part but serde_json is idle.
IdleButJson == IdleIssues /\ IdleUsers /\ IdleRepo /\ IdleJoin /\ IdleThread /\ IdleStats /\ IdleCombine /\ IdleEarly

\* Every part but all_issues is idle.
IdleButEarly == IdleIssues /\ IdleUsers /\ IdleRepo /\ IdleJoin /\ IdleThread /\ IdleStats /\ IdleCombine /\ IdleJson

\* repo.rs 143-151: repo::issues calls issues_work with no cursor.
InitIssues ==
  /\ IdleButIssues
  /\ end \in Ends
  /\ ipc = "call"
  /\ page = None
  /\ frames = <<>>
  /\ result = Err("pending")
  /\ requests = <<>>
  /\ responses = <<>>

NextIssues ==
  \/ IssuesWorkFails /\ UNCHANGED not_ivars
  \/ IssuesWorkRecurses /\ UNCHANGED not_ivars
  \/ IssuesWorkReturns /\ UNCHANGED not_ivars

SpecIssues == InitIssues /\ [][NextIssues]_vars

(***************************************************************************)
(* The user-search pager: contribs::user_contributions_work.               *)
(***************************************************************************)
\* contribs.rs 10: the number of users asked for in a page.
PAGE_SIZE == 5

\* contribs.rs 13: the maximum number of pages to pull.
MAX_PAGES == 10 * (100 \div PAGE_SIZE)

\* contribs.rs 16: a page is asked for at most this many times.
MAX_ATTEMPTS == 10

\* A user of the search result.
User(login, followers) == [login |-> login, followers |-> followers]

\* What page n of the search result can hold.  The search sorts the users by
\* followers, descending: a page is empty, or holds users who all have
\* followers, or ends with a user who has none.
UserPages(n) ==
  { <<>>,
    <<User(2 * n - 1, 2), User(2 * n, 1)>>,
    <<User(2 * n - 1, 1), User(2 * n, 0)>> }

\* github::lookup::<SearchQuery>(token, body): the POST of the query and the
\* decoding of the response into a SearchQuery.  It fails when the transport
\* fails or when the body does not decode; otherwise it gives a page.
Lookup(n) ==
  {Failure(k) : k \in {"transport", "decode"}} \cup
  {OkPage(us, h, c) : us \in UserPages(n), h \in BOOLEAN, c \in {None, Some(n)}}

\* The request sent last (its cursor and page number) with its outcome.
Logged(r) ==
  [kind |-> r.kind, edges |-> r.edges, has_next_page |-> r.has_next_page,
   end_cursor |-> r.end_cursor, page |-> upage, page_num |-> page_num]

\* A slip: one attempt too many.
CanRetry_OffByOne(a) == a <= MAX_ATTEMPTS

\* contribs.rs 147: `Err(_) if attempts < MAX_ATTEMPTS`.
CanRetry(a) == a < MAX_ATTEMPTS

\* A slip: one page too many.
WithinBudget_OffByOne(n) == n <= MAX_PAGES

\* contribs.rs 162: `page_num < MAX_PAGES`.
WithinBudget(n) == n < MAX_PAGES

\* A slip: an empty page is taken for one whose last user has followers.
LastHasFollowers_OrEmpty(users) ==
  IF users = <<>> THEN TRUE ELSE users[Len(users)].followers > 0

\* contribs.rs 163-166: does the last user of the page have followers?
LastHasFollowers(users) ==
  IF users = <<>> THEN FALSE ELSE users[Len(users)].followers > 0

\* contribs.rs 158-166: the guard of the recursive call for the next page.
UsersContinues(info, n, users) ==
  /\ IsSome(info.end_cursor)
  /\ info.has_next_page
  /\ WithinBudget(n)
  /\ LastHasFollowers(users)

\* A slip: the users of the page itself are left out of what is returned.
UsersReturnFrame_DropsPage(users, next) == next

\* contribs.rs 168-177: `let mut next = user_contributions_work(..)?;
\* users.append(&mut next); Ok(users)`.
UsersReturnFrame(users, next) ==
  CHOOSE r \in {IF n.ok THEN Ok(users \o n.val) ELSE n : n \in {next}} : TRUE

RECURSIVE UsersUnwindRange(_, _, _, _)
\* The return through the suspended calls lo..hi, innermost (hi) first.  The
\* range is split in two, and what the inner half returns (it is Ok or Err)
\* is a value before the outer half is entered, so that the evaluation nests
\* only log(hi - lo) deep and no return is evaluated twice.
UsersUnwindRange(fs, lo, hi, r) ==
  IF lo > hi THEN r
  ELSE IF lo = hi THEN UsersReturnFrame(fs[lo], r)
  ELSE LET mid == (lo + hi) \div 2
       IN  CHOOSE out \in {UsersUnwindRange(fs, lo, mid, inner) :
                             inner \in {UsersUnwindRange(fs, mid + 1, hi, r)}} : TRUE

\* The return through every suspended call, innermost first.  A call that
\* retried returns what its retry returned (contribs.rs 149).
UsersUnwind(fs, r) == UsersUnwindRange(fs, 1, Len(fs), r)

\* contribs.rs 147-150: the lookup fails with attempts left; after the sleep
\* the same page is asked for again.
UsersWorkRetries ==
  /\ upc = "call"
  /\ \E r \in Lookup(page_num) :
       /\ r.kind # "ok"
       /\ CanRetry(attempts)
       /\ attempts' = attempts + 1
       /\ tries' = tries + 1
       /\ ulast' = Logged(r)
       /\ UNCHANGED <<upc, upage, page_num, uframes, uresult, fetched>>

\* contribs.rs 151: the lookup fails with no attempt left; `Err(e) => Err(e)`.
UsersWorkGivesUp ==
  /\ upc = "call"
  /\ \E r \in Lookup(page_num) :
       /\ r.kind # "ok"
       /\ ~CanRetry(attempts)
       /\ tries' = tries + 1
       /\ ulast' = Logged(r)
       /\ uresult' = UsersUnwind(uframes, Err(r.kind))
       /\ upc' = "done"
       /\ UNCHANGED <<upage, page_num, attempts, uframes, fetched>>

\* contribs.rs 152-178: the page decodes and the next page is asked for,
\* with `page_num + 1` and `attempts` 1.
UsersWorkRecurses ==
  /\ upc = "call"
  /\ \E r \in Lookup(page_num) :
       /\ r.kind = "ok"
       /\ UsersContinues(r, page_num, r.edges)
       /\ uframes' = Append(uframes, r.edges)
       /\ upage' = r.end_cursor
       /\ page_num' = page_num + 1
       /\ attempts' = 1
       /\ tries' = 0
       /\ fetched' = fetched + 1
       /\ ulast' = Logged(r)
       /\ UNCHANGED <<upc, uresult>>

\* contribs.rs 152-180: the page decodes and is the last one asked for.
UsersWorkReturns ==
  /\ upc = "call"
  /\ \E r \in Lookup(page_num) :
       /\ r.kind = "ok"
       /\ ~UsersContinues(r, page_num, r.edges)
       /\ tries' = tries + 1
       /\ fetched' = fetched + 1
       /\ ulast' = Logged(r)
       /\ uresult' = UsersUnwind(uframes, Ok(r.edges))
       /\ upc' = "done"
       /\ UNCHANGED <<upage, page_num, attempts, uframes>>

\* contribs.rs 129-135: user_contributions calls
\* user_contributions_work(token, &progress, location, None, 1, 1).
InitUsers ==
  /\ IdleButUsers
  /\ upc = "call"
  /\ upage = None
  /\ page_num = 1
  /\ attempts = 1
  /\ uframes = <<>>
  /\ uresult = Err("pending")
  /\ tries = 0
  /\ fetched = 0
  /\ ulast = [kind |-> "none", edges |-> <<>>, has_next_page |-> FALSE, end_cursor |-> None,
              page |-> None, page_num |-> 0]

NextUsers ==
  \/ UsersWorkRetries /\ UNCHANGED not_uvars
  \/ UsersWorkGivesUp /\ UNCHANGED not_uvars
  \/ UsersWorkRecurses /\ UNCHANGED not_uvars
  \/ UsersWorkReturns /\ UNCHANGED not_uvars

SpecUsers == InitUsers /\ [][NextUsers]_vars

\* contribs.rs 137-183: a call of user_contributions_work that has been made
\* runs on: the lookup returns, and so does the sleep of ten seconds.
SpecUsersFair == SpecUsers /\ WF_vars(NextUsers)

(***************************************************************************)
(* Threads, Postings and Statistics (lib.rs).                              *)
(***************************************************************************)
\* A slip: a collaborator is not taken for official.
is_official_NoCollaborator(a) == a \in {"OWNER", "MEMBER"}

\* repo.rs 203-211: Association::is_official.
is_official(a) == a \in {"OWNER", "MEMBER", "COLLABORATOR"}

\* A slip: the owner of the repository is taken for the author of the thread.
is_author_OrOwner(a) == a \in {"AUTHOR", "OWNER"}

\* repo.rs 213-218: Association::is_author.
is_author(a) == a = "AUTHOR"

\* A slip: a missing author is given the empty login.
ghost_Empty(author) == IF IsSome(author) THEN author[1] ELSE ""

\* lib.rs 604-609: the login of an author, or "@ghost" when there is none.
ghost(author) == IF IsSome(author) THEN author[1] ELSE "@ghost"

\* A HashMap with no entry.
EmptyMap == [k \in {} |-> 0]

\* The elements of a sequence.
Range(s) == {s[i] : i \in 1..Len(s)}

\* Counter: `iter.collect::<Counter<_>>().into_map()`, how often each element occurs.
Counter(s) == [k \in Range(s) |-> Cardinality({i \in 1..Len(s) : s[i] = k})]

\* Iterator::find: the first element of s among those at the indices hits, as an Option.
Find(s, hits) ==
  IF hits = {} THEN None
  ELSE Some(s[CHOOSE i \in hits : \A j \in hits : i <= j])

\* lib.rs 611-638: issue_thread.
issue_thread(issue) ==
  LET comments == issue.comments
      first_comment ==
        Find(comments, {i \in 1..Len(comments) : ~is_author(comments[i].author_association)})
      first_official ==
        Find(comments, {i \in 1..Len(comments) : is_official(comments[i].author_association)})
  IN  [author |-> ghost(issue.author),
       posted |-> issue.created_at,
       closed |-> issue.closed_at,
       first_responder |->
         IF IsSome(first_comment) THEN Some(ghost(first_comment[1].author)) ELSE None,
       first_response |->
         IF IsSome(first_comment) THEN Some(first_comment[1].created_at) ELSE None,
       first_official_response |->
         IF IsSome(first_official) THEN Some(first_official[1].created_at) ELSE None,
       comments |-> Counter([i \in 1..Len(comments) |-> ghost(comments[i].author)])]

\* lib.rs 560-564 and 585-589: the date filter of all_issues and all_prs.
InDateRange(s, e, i) ==
  LET after == IF IsSome(s) THEN i.created_at >= s[1] ELSE TRUE
      before == IF IsSome(e) THEN i.created_at <= e[1] ELSE TRUE
  IN  after /\ before

\* lib.rs 551-568: all_issues, given what repo::issues returned.
all_issues(s, e, fetchd) ==
  IF ~fetchd.ok THEN fetchd
  ELSE LET kept == SelectSeq(fetchd.val, LAMBDA i : InDateRange(s, e, i))
       IN  Ok([k \in 1..Len(kept) |-> issue_thread(kept[k])])

\* lib.rs 590-599: the PR made of a fetched pull request.
pr_of(i) ==
  [thread |-> issue_thread(i),
   merged |-> i.merged_at,
   commits |-> IF IsSome(i.commits) THEN i.commits[1] ELSE 0]

\* lib.rs 570-602: all_prs, given what repo::issues returned.
all_prs(s, e, fetchd) ==
  IF ~fetchd.ok THEN fetchd
  ELSE LET kept == SelectSeq(fetchd.val, LAMBDA i : InDateRange(s, e, i))
       IN  Ok([k \in 1..Len(kept) |-> pr_of(kept[k])])

\* lib.rs 112-115: Postings.
Postings(issues, prs) == [issues |-> issues, prs |-> prs]

\* A slip: the other Postings' pull requests are left out.
combine_DropsPrs(self, other) ==
  Postings(self.issues \o other.issues, self.prs)

\* lib.rs 119-127: Postings::combine.
combine(self, other) ==
  Postings(self.issues \o other.issues, self.prs \o other.prs)

\* lib.rs 73-75: PR::is_merged.
is_merged(pr) == IsSome(pr.merged)

\* A slip: every closed PR counts, merged or not.
is_closed_not_merged_AnyClosed(pr) == IsSome(pr.thread.closed)

\* lib.rs 78-80: PR::is_closed_not_merged.
is_closed_not_merged(pr) == IsSome(pr.thread.closed) /\ ~is_merged(pr)

\* A slip: a key of both maps keeps only the count of the second map.
hashmap_combine_Overwrites(a, b) ==
  [k \in DOMAIN a \cup DOMAIN b |-> IF k \in DOMAIN b THEN b[k] ELSE a[k]]

\* lib.rs 661-671: hashmap_combine.
hashmap_combine(a, b) ==
  [k \in DOMAIN a \cup DOMAIN b |->
     IF k \in DOMAIN b
     THEN (IF k \in DOMAIN a THEN a[k] + b[k] ELSE b[k])
     ELSE a[k]]

RECURSIVE FoldMaps(_)
\* `.fold(HashMap::new(), hashmap_combine)` over a sequence of maps.
FoldMaps(ms) ==
  IF ms = <<>> THEN EmptyMap
  ELSE hashmap_combine(FoldMaps(SubSeq(ms, 1, Len(ms) - 1)), ms[Len(ms)])

RECURSIVE Insert(_, _)
\* x put into the ascending sequence s.
Insert(x, s) ==
  IF s = <<>> THEN <<x>>
  ELSE IF x <= Head(s) THEN <<x>> \o s
  ELSE <<Head(s)>> \o Insert(x, Tail(s))

RECURSIVE Sorted(_)
\* A slip: the durations are left in the order of the threads.
Sorted_Unsorted(s) == s

\* Itertools::sorted: the sequence in ascending order.
Sorted(s) == IF s = <<>> THEN <<>> ELSE Insert(Head(s), Sorted(Tail(s)))

RECURSIVE Sum(_)
\* Iterator::sum.
Sum(s) == IF s = <<>> THEN 0 ELSE Head(s) + Sum(Tail(s))

\* An unsigned 64-bit integer is kept as its four 16-bit limbs, most
\* significant first, since 2^64 is beyond the integers TLC computes with.
Limb == 2 ^ 16

\* The u64 of a natural number below 2^31.
U64(n) == <<0, 0, n \div Limb, n % Limb>>

\* `x as u64` of an i64 (|x| < 2^31): a negative x wraps to 2^64 + x,
\* which is 2^64 - 1 minus (-x - 1).
AsU64(x) ==
  IF x >= 0 THEN U64(x)
  ELSE LET y == (-x) - 1
       IN  <<Limb - 1, Limb - 1, (Limb - 1) - (y \div Limb), (Limb - 1) - (y % Limb)>>

RECURSIVE LongDiv(_, _, _)
\* The limbs of the quotient of the limbs u, after remainder rem, by n (0 < n < 2^15).
LongDiv(u, rem, n) ==
  IF u = <<>> THEN <<>>
  ELSE LET cur == rem * Limb + Head(u)
       IN  <<cur \div n>> \o LongDiv(Tail(u), cur % n, n)

\* A slip: the sum is divided by one more than the number of durations.
DivU64_OneMore(u, n) == LongDiv(u, 0, n + 1)

\* u64 division: `a / b`.
DivU64(u, n) == LongDiv(u, 0, n)

\* A slip: no duration gives a distribution of zeros.
resp_times_ZeroWhenEmpty(ts) ==
  LET with == SelectSeq(ts, LAMBDA t : IsSome(t.event))
      times == Sorted([i \in 1..Len(with) |-> with[i].event[1] - with[i].posted])
  IN  IF times = <<>> THEN Some([median |-> U64(0), mean |-> U64(0)])
      ELSE LET median == times[(Len(times) \div 2) + 1]
               mean == Sum(times)
           IN  IF median < 0 THEN None
               ELSE Some([median |-> U64(median),
                          mean |-> DivU64(AsU64(mean), Len(times))])

\* lib.rs 230-256: Postings::resp_times over ts, which gives for each thread
\* the optional time of its event (`g(t)`) and the time it was posted.
\* The durations are whole seconds.  A negative median makes to_std fail,
\* and `?` then returns None; the sum is an i64 that is cast to u64.
resp_times(ts) ==
  LET with == SelectSeq(ts, LAMBDA t : IsSome(t.event))
      times == Sorted([i \in 1..Len(with) |-> with[i].event[1] - with[i].posted])
  IN  IF times = <<>> THEN None
      ELSE LET median == times[(Len(times) \div 2) + 1]
               mean == Sum(times)
           IN  IF median < 0 THEN None
               ELSE Some([median |-> U64(median),
                          mean |-> DivU64(AsU64(mean), Len(times))])

\* A slip: the commits of the unmerged PRs are counted too.
contributor_commits_of_Unmerged(prs) ==
  [a \in {prs[i].thread.author : i \in 1..Len(prs)} |->
     LET own == SelectSeq(prs, LAMBDA p : p.thread.author = a)
     IN  Sum([i \in 1..Len(own) |-> own[i].commits])]

\* lib.rs 178-187: the commits of the merged PRs of each author.
contributor_commits_of(prs) ==
  LET merged == SelectSeq(prs, is_merged)
  IN  [a \in {merged[i].thread.author : i \in 1..Len(merged)} |->
         LET own == SelectSeq(merged, LAMBDA p : p.thread.author = a)
         IN  Sum([i \in 1..Len(own) |-> own[i].commits])]

\* lib.rs 130-227: Postings::statistics.
statistics(self) ==
  LET issues == self.issues
      prs == self.prs
      merged == SelectSeq(prs, is_merged)
  IN
  [commentors |->
     hashmap_combine(FoldMaps([i \in 1..Len(issues) |-> issues[i].comments]),
                     FoldMaps([i \in 1..Len(prs) |-> prs[i].thread.comments])),
   code_contributors |-> Counter([i \in 1..Len(merged) |-> merged[i].thread.author]),
   contributor_commits |-> contributor_commits_of(prs),
   all_issues |-> Len(issues),
   all_closed_issues |-> Len(SelectSeq(issues, LAMBDA i : IsSome(i.closed))),
   issues_with_responses |-> Len(SelectSeq(issues, LAMBDA i : IsSome(i.first_response))),
   issues_with_official_responses |->
     Len(SelectSeq(issues, LAMBDA i : IsSome(i.first_official_response))),
   issue_first_resp_time |->
     resp_times([i \in 1..Len(issues) |->
                   [event |-> issues[i].first_response, posted |-> issues[i].posted]]),
   issue_official_first_resp_time |->
     resp_times([i \in 1..Len(issues) |->
                   [event |-> issues[i].first_official_response, posted |-> issues[i].posted]]),
   all_prs |-> Len(prs),
   prs_with_responses |-> Len(SelectSeq(prs, LAMBDA p : IsSome(p.thread.first_response))),
   prs_with_official_responses |->
     Len(SelectSeq(prs, LAMBDA p : IsSome(p.thread.first_official_response))),
   pr_first_resp_time |->
     resp_times([i \in 1..Len(prs) |->
                   [event |-> prs[i].thread.first_response, posted |-> prs[i].thread.posted]]),
   pr_official_first_resp_time |->
     resp_times([i \in 1..Len(prs) |->
                   [event |-> prs[i].thread.first_official_response,
                    posted |-> prs[i].thread.posted]]),
   prs_merged |-> Len(SelectSeq(prs, is_merged)),
   prs_closed_without_merging |-> Len(SelectSeq(prs, is_closed_not_merged)),
   pr_merge_time |->
     resp_times([i \in 1..Len(prs) |->
                   [event |-> prs[i].merged, posted |-> prs[i].thread.posted]])]

(***************************************************************************)
(* The `repo` command (main.rs) and repo_threads (lib.rs).                  *)
(***************************************************************************)
\* The largest number of repositories given on the command line.
MaxRepos == 3
\* The largest number of issues, and of pull requests, of a repository.
MaxThreads == 1

\* The (start, end) dates the user can give.
DateRanges == {<<None, None>>, <<Some(2), Some(3)>>}

\* The logins of the users who open threads.
Logins == <<"alice", "bob", "carol">>

\* repo.rs 29-33: a Comment.
Comment(author, assoc, at) ==
  [author |-> author, author_association |-> assoc, created_at |-> at]

\* What the server holds as item k of repository i: an Issue of repo.rs 13-20.
\* Items differ in opener, comments and closing; pull requests (pr) also
\* carry a merge date and a commit count.
RawItem(i, k, pr) ==
  LET kind == (i + k) % 3
      opener == Logins[((i - 1) % 3) + 1]
  IN  [author |-> IF kind = 0 THEN None ELSE Some(opener),
       created_at |-> i,
       closed_at |-> IF kind = 1 THEN None ELSE Some(i + 4),
       merged_at |-> IF pr /\ kind # 1 THEN Some(i + 4) ELSE None,
       comments |->
         IF kind = 0 THEN <<Comment(None, "CONTRIBUTOR", i + 1)>>
         ELSE IF kind = 1 THEN <<>>
         ELSE <<Comment(Some(opener), "AUTHOR", i + 1),
                Comment(Some("bob"), "NONE", i + 2),
                Comment(Some("carol"), "MEMBER", i + 3)>>,
       commits |-> IF pr THEN Some(k) ELSE None]

\* What repo::issues can return for repository i: an error, no item, or
\* every item of the repository.
FetchResults(i, pr) ==
  {Err(IF pr THEN "pull requests failed" ELSE "issues failed")} \cup
  {Ok([k \in 1..n |-> RawItem(i, k, pr)]) : n \in {0, MaxThreads}}

\* lib.rs 503-537: repo_threads, given what the two fetches returned.  Both
\* fetches run, in serial or in parallel; `issues?` is evaluated before `prs?`.
repo_threads(s, e, issues_fetched, prs_fetched) ==
  LET issues == all_issues(s, e, issues_fetched)
      prs == all_prs(s, e, prs_fetched)
  IN  IF ~issues.ok THEN issues
      ELSE IF ~prs.ok THEN prs
      ELSE Ok(Postings(issues.val, prs.val))

\* main.rs 213-220: partition_map(From::from) sends every Err to `bads` and
\* every Ok to `goods`, each in the order of the repositories.
Bads(rs) ==
  LET errs == SelectSeq(rs, LAMBDA r : ~r.ok)
  IN  [i \in 1..Len(errs) |-> errs[i].err]

Goods(rs) ==
  LET oks == SelectSeq(rs, LAMBDA r : r.ok)
  IN  [i \in 1..Len(oks) |-> oks[i].val]

RECURSIVE FoldCombine(_, _)
\* main.rs 234: `goods.into_iter().fold(zero, |acc, ps| acc.combine(ps))`.
FoldCombine(acc, goods) ==
  IF goods = <<>> THEN acc
  ELSE FoldCombine(combine(acc, Head(goods)), Tail(goods))

\* A slip: the first failure ends the command, as `collect::<Result<_, _>>` would.
Collected_FirstError(ts) ==
  \/ \A i \in DOMAIN ts : IsSome(ts[i])
  \/ \E i \in DOMAIN ts : IsSome(ts[i]) /\ ~ts[i][1].ok

\* main.rs 213-220: the parallel map is over when every repository has its result.
Collected(ts) == \A i \in DOMAIN ts : IsSome(ts[i])

\* A slip: with no repository that succeeded, the statistics of no thread are returned.
repo_result_EmptyOk(goods) ==
  Ok(statistics(FoldCombine(Postings(<<>>, <<>>), goods)))

\* main.rs 229-246: the result of `repo`, given the Postings of the
\* repositories that succeeded.
repo_result(goods) ==
  IF goods # <<>>
  THEN Ok(statistics(FoldCombine(Postings(<<>>, <<>>), goods)))
  ELSE Err("No results to show!")

\* main.rs 194-195: no repository is given.
RepoNoRepos ==
  /\ rpc = "fetch"
  /\ repos = <<>>
  /\ output' = Err("No repositories given!")
  /\ rpc' = "done"
  /\ UNCHANGED <<repos, r_start, r_end, r_serial, asked, fetches, threads, reported>>

\* main.rs 213-219, lib.rs 518-531: the worker of repository i starts fetch b
\* of repo_threads, which sends its requests and waits for the network while
\* the other workers run, and under rayon::join the other fetch of the same
\* repository as well.  In serial mode the pull requests are started when
\* the issues have returned.
RepoFetchStarts(i, b) ==
  /\ rpc = "fetch"
  /\ b \notin asked[i]
  /\ r_serial => (b = "issues" \/ IsSome(fetches[i]["issues"]))
  /\ asked' = [asked EXCEPT ![i] = @ \cup {b}]
  /\ UNCHANGED <<repos, r_start, r_end, r_serial, rpc, fetches, threads, reported, output>>

\* lib.rs 518-536: fetch b of repository i returns; when the other fetch has
\* returned as well, repo_threads returns what the worker hands to the map.
RepoFetchReturns(i, b) ==
  /\ rpc = "fetch"
  /\ b \in asked[i]
  /\ fetches[i][b] = None
  /\ \E f \in FetchResults(repos[i], b = "prs") :
       LET got == [fetches[i] EXCEPT ![b] = Some(f)]
       IN  /\ fetches' = [fetches EXCEPT ![i] = got]
           /\ threads' = [threads EXCEPT ![i] =
                            IF \A o \in Branches : IsSome(got[o])
                            THEN Some(repo_threads(r_start, r_end, got["issues"][1], got["prs"][1]))
                            ELSE None]
  /\ UNCHANGED <<repos, r_start, r_end, r_serial, rpc, asked, reported, output>>

\* main.rs 220-247: the results are partitioned, the errors are reported and
\* the statistics of the combined Postings are returned.
RepoCollects ==
  /\ rpc = "fetch"
  /\ repos # <<>>
  /\ Collected(threads)
  /\ LET results == Flatten(threads)
     IN  /\ reported' = Bads(results)
         /\ output' = repo_result(Goods(results))
  /\ rpc' = "done"
  /\ UNCHANGED <<repos, r_start, r_end, r_serial, asked, fetches, threads>>

\* main.rs 193: `repo` is called with up to MaxRepos repositories.
InitRepo ==
  /\ IdleButRepo
  /\ \E n \in 0..MaxRepos : repos = [i \in 1..n |-> i]
  /\ \E d \in DateRanges : r_start = d[1] /\ r_end = d[2]
  /\ r_serial \in BOOLEAN
  /\ rpc = "fetch"
  /\ asked = [i \in 1..Len(repos) |-> {}]
  /\ fetches = [i \in 1..Len(repos) |-> [b \in Branches |-> None]]
  /\ threads = [i \in 1..Len(repos) |-> None]
  /\ reported = <<>>
  /\ output = Err("pending")

NextRepo ==
  \/ RepoNoRepos /\ UNCHANGED not_rvars
  \/ \E i \in 1..Len(repos), b \in Branches : RepoFetchStarts(i, b) /\ UNCHANGED not_rvars
  \/ \E i \in 1..Len(repos), b \in Branches : RepoFetchReturns(i, b) /\ UNCHANGED not_rvars
  \/ RepoCollects /\ UNCHANGED not_rvars

SpecRepo == InitRepo /\ [][NextRepo]_vars

(***************************************************************************)
(* repo_threads with the page requests of its two fetches (lib.rs).        *)
(***************************************************************************)
\* The (start, end) dates repo_threads can be given.
JoinDates == {<<None, None>>, <<Some(1), Some(1)>>}

\* Every outcome of request number n of fetch b: a failure, or a page that
\* is empty or holds one item, created on day n.  Page MaxPages does not
\* announce a further page.  The cursor that follows page n is n.
JoinResponses(b, n) ==
  {Failure(k) : k \in FailureKinds} \cup
  {pg \in {OkPage(edges, h, c) :
              edges \in {<<>>, <<RawItem(n, 1, b = "prs")>>},
              h \in BOOLEAN, c \in {None, Some(n)}} :
      n < MaxPages \/ ~(pg.has_next_page /\ IsSome(pg.end_cursor))}

RECURSIVE issues_work(_, _)
\* repo.rs 153-190: issues_work as a function of the outcomes rs of the
\* requests that this call and the calls it makes send, one after the other.
issues_work(e, rs) ==
  LET r == Head(rs)
  IN  IF r.kind # "ok" THEN Err(r.kind)
      ELSE IF Continues(r, StopEarly(e, r.edges))
           THEN ReturnFrame(r.edges, issues_work(e, Tail(rs)))
           ELSE Ok(r.edges)

\* A slip: both fetches collect their pages in one list.
Local_Shared(b) == "issues"

\* repo.rs 172-177: each call of issues_work owns its `issues`, so the calls
\* of a fetch collect the pages of that fetch.
Local(b) == b

\* lib.rs 522-531: in serial mode the pull requests are fetched after the
\* issues; under rayon::join the two closures run in any interleaving.
CanStep(b) ==
  /\ jpc[b] = "call"
  /\ serial => (b = "issues" \/ jpc["issues"] = "done")

\* What a request of fetch b adds to the log of the order of the requests.
Sent(b) ==
  order' = [last |-> b,
            switches |-> IF order.last \in {"none", b} THEN order.switches
                         ELSE order.switches + 1,
            overlapped |-> order.overlapped \/ \E o \in Branches \ {b} : jpc[o] = "wait"]

\* What the outcome r of the request of fetch b adds to the log of the fetch.
Answered(b, r) ==
  jlog' = [jlog EXCEPT ![b] = Append(@, [page |-> jpage[b], resp |-> r])]

\* repo.rs 161-165: issues_work of fetch b sends its request and waits in
\* client.post; the thread of the other fetch runs meanwhile.
BranchSends(b) ==
  /\ CanStep(b)
  /\ Sent(b)
  /\ jpc' = [jpc EXCEPT ![b] = "wait"]
  /\ UNCHANGED <<serial, j_start, j_end, jpage, jframes, jresult, jlog, postings>>

\* repo.rs 163-170: the request of fetch b fails, and the error returns through every caller.
BranchFails(b) ==
  /\ jpc[b] = "wait"
  /\ \E r \in JoinResponses(b, Len(jlog[b]) + 1) :
       /\ r.kind # "ok"
       /\ Answered(b, r)
       /\ jresult' = [jresult EXCEPT ![b] = Unwind(jframes[Local(b)], Err(r.kind))]
       /\ jpc' = [jpc EXCEPT ![b] = "done"]
       /\ UNCHANGED <<serial, j_start, j_end, jpage, jframes, order, postings>>

\* repo.rs 167-187: the page of fetch b decodes and a further page is to be asked for.
BranchRecurses(b) ==
  /\ jpc[b] = "wait"
  /\ \E r \in JoinResponses(b, Len(jlog[b]) + 1) :
       /\ r.kind = "ok"
       /\ Continues(r, StopEarly(j_end, r.edges))
       /\ Answered(b, r)
       /\ jframes' = [jframes EXCEPT ![Local(b)] = Append(@, r.edges)]
       /\ jpage' = [jpage EXCEPT ![b] = r.end_cursor]
       /\ jpc' = [jpc EXCEPT ![b] = "call"]
       /\ UNCHANGED <<serial, j_start, j_end, jresult, order, postings>>

\* repo.rs 167-189: the page of fetch b decodes and is the last one asked for.
BranchReturns(b) ==
  /\ jpc[b] = "wait"
  /\ \E r \in JoinResponses(b, Len(jlog[b]) + 1) :
       /\ r.kind = "ok"
       /\ ~Continues(r, StopEarly(j_end, r.edges))
       /\ Answered(b, r)
       /\ jresult' = [jresult EXCEPT ![b] = Unwind(jframes[Local(b)], Ok(r.edges))]
       /\ jpc' = [jpc EXCEPT ![b] = "done"]
       /\ UNCHANGED <<serial, j_start, j_end, jpage, jframes, order, postings>>

\* lib.rs 533-536: both fetches have returned, and the Postings are made.
Joins ==
  /\ \A b \in Branches : jpc[b] = "done"
  /\ postings = Err("pending")
  /\ postings' = repo_threads(j_start, j_end, jresult["issues"], jresult["prs"])
  /\ UNCHANGED <<serial, j_start, j_end, jpc, jpage, jframes, jresult, jlog, order>>

\* lib.rs 503-531: repo_threads is called and starts its two fetches.
InitJoin ==
  /\ IdleButJoin
  /\ serial \in BOOLEAN
  /\ \E d \in JoinDates : j_start = d[1] /\ j_end = d[2]
  /\ jpc = [b \in Branches |-> "call"]
  /\ jpage = [b \in Branches |-> None]
  /\ jframes = [b \in Branches |-> <<>>]
  /\ jresult = [b \in Branches |-> Err("pending")]
  /\ jlog = [b \in Branches |-> <<>>]
  /\ order = [last |-> "none", switches |-> 0, overlapped |-> FALSE]
  /\ postings = Err("pending")

NextJoin ==
  \/ \E b \in Branches : BranchSends(b) /\ UNCHANGED not_jvars
  \/ \E b \in Branches : BranchFails(b) /\ UNCHANGED not_jvars
  \/ \E b \in Branches : BranchRecurses(b) /\ UNCHANGED not_jvars
  \/ \E b \in Branches : BranchReturns(b) /\ UNCHANGED not_jvars
  \/ Joins /\ UNCHANGED not_jvars

SpecJoin == InitJoin /\ [][NextJoin]_vars

(***************************************************************************)
(* issue_thread on its own (lib.rs).                                       *)
(***************************************************************************)
\* The largest number of comments of a thread.
MaxComments == 2

\* repo.rs 194-201: Association.
Associations == {"OWNER", "MEMBER", "COLLABORATOR", "CONTRIBUTOR", "AUTHOR", "NONE"}

\* The authors a thread or a comment can have; None is a deleted account.
Authors == {None, Some("alice"), Some("bob")}

\* The days a comment can be created on.
CommentDates == {1, 2}

\* The comment lists the server can return, in any order of their dates.
CommentSeqs ==
  UNION {[1..n -> {Comment(a, as, d) : a \in Authors, as \in Associations, d \in CommentDates}] :
           n \in 0..MaxComments}

\* The issues issue_thread can be given.
Issues ==
  {[author |-> a, created_at |-> 0, closed_at |-> None, merged_at |-> None,
    comments |-> cs, commits |-> None] : a \in Authors, cs \in CommentSeqs}

\* lib.rs 611-638: issue_thread is called and returns the Thread.
IssueThread ==
  /\ thread = None
  /\ thread' = Some(issue_thread(t_issue))
  /\ UNCHANGED t_issue

\* lib.rs 611: issue_thread is given an issue.
InitThread ==
  /\ IdleButThread
  /\ t_issue \in Issues
  /\ thread = None

NextThread == IssueThread /\ UNCHANGED not_tvars

SpecThread == InitThread /\ [][NextThread]_vars

(***************************************************************************)
(* Postings::statistics on its own (lib.rs).                               *)
(***************************************************************************)
\* The largest number of threads of the Postings.
MaxPosts == 3

\* The day every thread is posted on, in seconds.
PostedAt == 1000

\* The seconds from the posting of a thread to its event.  A comment or a
\* merge that is dated before its thread (clock skew) gives a negative one.
Durations == {-90, 60, 120, 300}

\* The event of each thread of a collection: none, or one after a duration.
EventSeqs ==
  UNION {[1..n -> {None} \cup {Some(PostedAt + d) : d \in Durations}] : n \in 0..MaxPosts}

\* The five distributions of Statistics.
Distributions ==
  {"issue_first_resp_time", "issue_official_first_resp_time",
   "pr_first_resp_time", "pr_official_first_resp_time", "pr_merge_time"}

\* lib.rs 93-108: a Thread by alice whose first response is at `resp` and
\* whose first official response is at `official`.
ThreadWith(resp, official) ==
  [author |-> "alice", posted |-> PostedAt, closed |-> None,
   first_responder |-> IF IsSome(resp) THEN Some("bob") ELSE None,
   first_response |-> resp,
   first_official_response |-> official,
   comments |-> IF IsSome(resp) THEN [k \in {"bob"} |-> 1] ELSE EmptyMap]

\* lib.rs 65-69: a PR of one commit.
PRWith(resp, official, merged) ==
  [thread |-> ThreadWith(resp, official), commits |-> 1, merged |-> merged]

\* The Postings whose threads have the events evs for the distribution d:
\* an official response is a response too, and a merge needs no response.
PostingsWith(d, evs) ==
  IF d = "issue_first_resp_time"
  THEN Postings([i \in 1..Len(evs) |-> ThreadWith(evs[i], None)], <<>>)
  ELSE IF d = "issue_official_first_resp_time"
  THEN Postings([i \in 1..Len(evs) |-> ThreadWith(evs[i], evs[i])], <<>>)
  ELSE IF d = "pr_first_resp_time"
  THEN Postings(<<>>, [i \in 1..Len(evs) |-> PRWith(evs[i], None, None)])
  ELSE IF d = "pr_official_first_resp_time"
  THEN Postings(<<>>, [i \in 1..Len(evs) |-> PRWith(evs[i], evs[i], None)])
  ELSE Postings(<<>>, [i \in 1..Len(evs) |-> PRWith(None, None, evs[i])])

\* lib.rs 130-227: statistics is called and returns the Statistics.
Statistics ==
  /\ stats = None
  /\ stats' = Some(statistics(given))
  /\ UNCHANGED given

\* lib.rs 130: statistics is called on Postings.
InitStats ==
  /\ IdleButStats
  /\ \E d \in Distributions, evs \in EventSeqs : given = PostingsWith(d, evs)
  /\ stats = None

NextStats == Statistics /\ UNCHANGED not_svars

SpecStats == InitStats /\ [][NextStats]_vars

(***************************************************************************)
(* Postings::combine followed by statistics (lib.rs, main.rs).             *)
(***************************************************************************)
\* lib.rs 93-108: a Thread by `author`, closed or not, with the comment
\* counts `comments`, and no response times.
ThreadBy(author, closed, comments) ==
  [author |-> author, posted |-> PostedAt,
   closed |-> IF closed THEN Some(PostedAt + 300) ELSE None,
   first_responder |-> None, first_response |-> None,
   first_official_response |-> None,
   comments |-> comments]

\* The issue threads of a repository: the commenters are shared, missing
\* (the ghost) or none.
IssuePool ==
  <<ThreadBy("alice", TRUE, [k \in {"alice", "bob"} |-> IF k = "bob" THEN 2 ELSE 1]),
    ThreadBy("bob", FALSE, [k \in {"bob", "@ghost"} |-> 1]),
    ThreadBy("@ghost", FALSE, EmptyMap)>>

\* lib.rs 65-69: a PR by `author` with `commits` commits, closed or not, merged or not.
PRBy(author, commits, closed, merged, comments) ==
  [thread |-> ThreadBy(author, closed, comments),
   commits |-> commits,
   merged |-> IF merged THEN Some(PostedAt + 300) ELSE None]

\* The pull requests of a repository: merged and closed, merged but not
\* recorded as closed, closed without merging, and open.
PRPool ==
  <<PRBy("alice", 2, TRUE, TRUE, [k \in {"bob"} |-> 1]),
    PRBy("bob", 3, TRUE, FALSE, [k \in {"carol"} |-> 2]),
    PRBy("alice", 1, FALSE, TRUE, EmptyMap),
    PRBy("bob", 0, FALSE, FALSE, [k \in {"alice", "bob"} |-> 1]),
    PRBy("@ghost", 4, TRUE, TRUE, [k \in {"@ghost"} |-> 1])>>

\* The runs of at most MaxPosts neighbours of the sequence s, the empty run included.
Runs(s) ==
  {<<>>} \cup {SubSeq(s, r[1], r[2]) :
                 r \in {q \in (1..Len(s)) \X (1..Len(s)) :
                          q[1] <= q[2] /\ q[2] - q[1] < MaxPosts}}

\* The Postings a repository can give: a run of its issues and a run of its PRs.
PostingsPool ==
  {Postings(is, ps) : is \in Runs(IssuePool), ps \in Runs(PRPool)}

\* main.rs 229-235: two Postings are combined.
Combine ==
  /\ combined = None
  /\ combined' = Some(combine(c_self, c_other))
  /\ UNCHANGED <<c_self, c_other, cstats>>
  /\ UNCHANGED not_cvars

\* main.rs 235: the statistics of the combined Postings.
CombinedStatistics ==
  /\ IsSome(combined)
  /\ cstats = None
  /\ cstats' = Some(statistics(combined[1]))
  /\ UNCHANGED <<c_self, c_other, combined>>
  /\ UNCHANGED not_cvars

InitCombine ==
  /\ c_self \in PostingsPool
  /\ c_other \in PostingsPool
  /\ combined = None
  /\ cstats = None
  /\ IdleButCombine

NextCombine ==
  \/ Combine
  \/ CombinedStatistics

SpecCombine == InitCombine /\ [][NextCombine]_vars

(***************************************************************************)
(* Statistics as JSON: `repo --json` piped into `json` (lib.rs, main.rs).  *)
(***************************************************************************)
\* A JSON value as serde_json writes and reads it: null, a number with its
\* decimal digits, or an object with its members in the order of the text.
\* The keys are logins and field names, which need no escaping.
JsonValue(t, digits, members) == [t |-> t, digits |-> digits, members |-> members]

\* A slip: the digits are written least significant first.
DigitsU64_Reversed(u) ==
  LET RECURSIVE Rem(_, _)
      Rem(v, rem) == IF v = <<>> THEN rem ELSE Rem(Tail(v), (rem * Limb + Head(v)) % 10)
      RECURSIVE Low(_)
      Low(v) == IF LongDiv(v, 0, 10) = <<0, 0, 0, 0>> THEN <<Rem(v, 0)>>
                ELSE <<Rem(v, 0)>> \o Low(LongDiv(v, 0, 10))
  IN  Low(u)

RECURSIVE DigitsU64(_)
\* The decimal digits of a u64 (usize is a u64), most significant first, as
\* serde_json writes an unsigned integer.
DigitsU64(u) ==
  LET RECURSIVE Rem(_, _)
      Rem(v, rem) == IF v = <<>> THEN rem ELSE Rem(Tail(v), (rem * Limb + Head(v)) % 10)
      q == LongDiv(u, 0, 10)
  IN  IF q = <<0, 0, 0, 0>> THEN <<Rem(u, 0)>>
      ELSE Append(DigitsU64(q), Rem(u, 0))

\* The u64 that serde_json reads from decimal digits; None when there is no
\* digit or the number does not fit a u64.
ParseU64(ds) ==
  LET RECURSIVE From(_, _)
      From(acc, rest) ==
        IF rest = <<>> THEN Some(acc)
        ELSE LET x4 == acc[4] * 10 + Head(rest)
                 x3 == acc[3] * 10 + (x4 \div Limb)
                 x2 == acc[2] * 10 + (x3 \div Limb)
                 x1 == acc[1] * 10 + (x2 \div Limb)
             IN  IF x1 >= Limb THEN None
                 ELSE From(<<x1, x2 % Limb, x3 % Limb, x4 % Limb>>, Tail(rest))
  IN  IF ds = <<>> THEN None ELSE From(<<0, 0, 0, 0>>, ds)

\* lib.rs 260-264: Option<ResponseTimes> as JSON.  None is null; a Duration
\* is an object of its whole seconds and its nanoseconds, which are 0 here.
ser_resp_times(o) ==
  LET duration(d) ==
        JsonValue("object", <<>>,
                  <<<<"secs", JsonValue("number", DigitsU64(d), <<>>)>>,
                    <<"nanos", JsonValue("number", DigitsU64(U64(0)), <<>>)>>>>)
  IN  IF o = None THEN JsonValue("null", <<>>, <<>>)
      ELSE JsonValue("object", <<>>,
                     <<<<"median", duration(o[1].median)>>,
                       <<"mean", duration(o[1].mean)>>>>)

\* lib.rs 299-304: a HashMap<String, usize> as JSON, its entries in the
\* order `iter` in which the HashMap happens to iterate.
ser_map(m, iter) ==
  JsonValue("object", <<>>,
            [i \in 1..Len(iter) |->
               <<iter[i], JsonValue("number", DigitsU64(U64(m[iter[i]])), <<>>)>>])

\* The orders in which a HashMap with the entries of m can iterate.
Orders(m) ==
  {o \in [1..Cardinality(DOMAIN m) -> DOMAIN m] :
     \A i, j \in DOMAIN o : o[i] = o[j] => i = j}

\* lib.rs 297-333, main.rs 237: serde_json::to_string of a Statistics; the
\* fields are written in the order of their declaration.
to_string(s, orders) ==
  LET count(n) == JsonValue("number", DigitsU64(U64(n)), <<>>)
  IN  JsonValue("object", <<>>,
        <<<<"commentors", ser_map(s.commentors, orders[1])>>,
          <<"code_contributors", ser_map(s.code_contributors, orders[2])>>,
          <<"contributor_commits", ser_map(s.contributor_commits, orders[3])>>,
          <<"all_issues", count(s.all_issues)>>,
          <<"all_closed_issues", count(s.all_closed_issues)>>,
          <<"issues_with_responses", count(s.issues_with_responses)>>,
          <<"issues_with_official_responses", count(s.issues_with_official_responses)>>,
          <<"issue_first_resp_time", ser_resp_times(s.issue_first_resp_time)>>,
          <<"issue_official_first_resp_time", ser_resp_times(s.issue_official_first_resp_time)>>,
          <<"all_prs", count(s.all_prs)>>,
          <<"prs_with_responses", count(s.prs_with_responses)>>,
          <<"prs_with_official_responses", count(s.prs_with_official_responses)>>,
          <<"pr_first_resp_time", ser_resp_times(s.pr_first_resp_time)>>,
          <<"pr_official_first_resp_time", ser_resp_times(s.pr_official_first_resp_time)>>,
          <<"prs_merged", count(s.prs_merged)>>,
          <<"prs_closed_without_merging", count(s.prs_closed_without_merging)>>,
          <<"pr_merge_time", ser_resp_times(s.pr_merge_time)>>>>)

\* The values of the members of the JSON object v that are named `name`, in
\* the order of the text.
Members(v, name) ==
  LET hits == SelectSeq(v.members, LAMBDA m : m[1] = name)
  IN  [i \in 1..Len(hits) |-> hits[i][2]]

\* A usize field read from the members vs that carry its name: the field
\* must be there once and hold a number that fits a usize, which has 64
\* bits; None is an error.  A count below 2^31 is given as the number it is,
\* a count from 2^31 on, beyond the integers TLC computes with, as its limbs.
de_usize(vs) ==
  IF Len(vs) # 1 \/ vs[1].t # "number" THEN None
  ELSE LET u == ParseU64(vs[1].digits)
       IN  IF u = None THEN None
           ELSE IF u[1][1] # 0 \/ u[1][2] # 0 \/ u[1][3] >= Limb \div 2 THEN Some(u[1])
           ELSE Some(u[1][3] * Limb + u[1][4])

\* lib.rs 299-304: a HashMap<String, usize> field read from the members vs
\* that carry its name.  A missing field is an error unless the field is
\* `#[serde(default)]`; of two entries with one key the later one stays.
de_map(vs, default) ==
  IF vs = <<>> THEN (IF default THEN Some(EmptyMap) ELSE None)
  ELSE IF Len(vs) # 1 \/ vs[1].t # "object" THEN None
  ELSE LET ms == vs[1].members
           keys == {ms[i][1] : i \in 1..Len(ms)}
           last(k) == CHOOSE i \in 1..Len(ms) :
                        /\ ms[i][1] = k
                        /\ \A j \in 1..Len(ms) : ms[j][1] = k => j <= i
       IN  IF \E i \in 1..Len(ms) : de_usize(<<ms[i][2]>>) = None THEN None
           ELSE Some([k \in keys |-> de_usize(<<ms[last(k)][2]>>)[1]])

\* lib.rs 260-264: an Option<ResponseTimes> field read from the members vs
\* that carry its name.  A missing field and null are both None (given as
\* Some(None)); None is an error.  A Duration has its `secs`, a u64, and its
\* `nanos`, a u32, each once and no other member; Duration::new carries the
\* whole seconds of the nanos into the secs, which must not overflow.  A
\* Duration of whole seconds is given by its seconds alone.
de_resp_times(vs) ==
  LET number(ns) ==
        IF Len(ns) # 1 \/ ns[1].t # "number" THEN None ELSE ParseU64(ns[1].digits)
      RECURSIVE Rem(_, _, _)
      Rem(u, rem, n) == IF u = <<>> THEN rem ELSE Rem(Tail(u), (rem * Limb + Head(u)) % n, n)
      RECURSIVE Add(_, _)
      \* The limbs u, least significant first, plus c, and the carry out as the last element.
      Add(u, c) == IF u = <<>> THEN <<c>>
                   ELSE <<(Head(u) + c) % Limb>> \o Add(Tail(u), (Head(u) + c) \div Limb)
      new(secs, nanos) ==
        LET k1 == LongDiv(nanos, 0, 1000)
            k2 == LongDiv(k1, 0, 1000)
            carry == LongDiv(k2, 0, 1000)[4]
            rest == (Rem(k2, 0, 1000) * 1000 + Rem(k1, 0, 1000)) * 1000 + Rem(nanos, 0, 1000)
            sum == Add(<<secs[4], secs[3], secs[2], secs[1]>>, carry)
            whole == <<sum[4], sum[3], sum[2], sum[1]>>
        IN  IF sum[5] # 0 THEN None
            ELSE IF rest = 0 THEN Some(whole)
            ELSE Some([secs |-> whole, nanos |-> U64(rest)])
      duration(ds) ==
        IF Len(ds) # 1 \/ ds[1].t # "object" THEN None
        ELSE IF \E i \in 1..Len(ds[1].members) : ds[1].members[i][1] \notin {"secs", "nanos"}
        THEN None
        ELSE LET secs == number(Members(ds[1], "secs"))
                 nanos == number(Members(ds[1], "nanos"))
             IN  IF secs = None \/ nanos = None THEN None
                 ELSE IF nanos[1][1] # 0 \/ nanos[1][2] # 0 THEN None
                 ELSE new(secs[1], nanos[1])
  IN  IF vs = <<>> THEN Some(None)
      ELSE IF Len(vs) # 1 THEN None
      ELSE IF vs[1].t = "null" THEN Some(None)
      ELSE IF vs[1].t # "object" THEN None
      ELSE LET median == duration(Members(vs[1], "median"))
               mean == duration(Members(vs[1], "mean"))
           IN  IF median = None \/ mean = None THEN None
               ELSE Some(Some([median |-> median[1], mean |-> mean[1]]))

\* lib.rs 297-333, main.rs 181: serde_json::from_str of a Statistics.
from_str(v) ==
  IF v.t # "object" THEN Err("invalid type")
  ELSE LET maps == [f \in {"commentors", "code_contributors", "contributor_commits"} |->
                      de_map(Members(v, f), f = "contributor_commits")]
           counts == [f \in {"all_issues", "all_closed_issues", "issues_with_responses",
                             "issues_with_official_responses", "all_prs",
                             "prs_with_responses", "prs_with_official_responses",
                             "prs_merged", "prs_closed_without_merging"} |->
                        de_usize(Members(v, f))]
           times == [f \in {"issue_first_resp_time", "issue_official_first_resp_time",
                            "pr_first_resp_time", "pr_official_first_resp_time",
                            "pr_merge_time"} |->
                       de_resp_times(Members(v, f))]
       IN  IF \/ \E f \in DOMAIN maps : maps[f] = None
              \/ \E f \in DOMAIN counts : counts[f] = None
              \/ \E f \in DOMAIN times : times[f] = None
           THEN Err("invalid Statistics")
           ELSE Ok([f \in DOMAIN maps \cup DOMAIN counts \cup DOMAIN times |->
                      IF f \in DOMAIN maps THEN maps[f][1]
                      ELSE IF f \in DOMAIN counts THEN counts[f][1]
                      ELSE times[f][1]])

\* The Statistics that `repo` can come to: of the Postings of a repository,
\* of Postings with response times, and of both combined.
StatisticsPool ==
  LET timed == {PostingsWith(d, evs) : d \in Distributions, evs \in EventSeqs}
  IN  {statistics(p) : p \in PostingsPool \cup timed}
        \cup {statistics(combine(Postings(IssuePool, PRPool), p)) : p \in timed}

\* main.rs 236-238: `repo --json` prints the Statistics as JSON.
RepoJson ==
  /\ text = None
  /\ \E o1 \in Orders(saved.commentors), o2 \in Orders(saved.code_contributors),
        o3 \in Orders(saved.contributor_commits) :
       text' = Some(to_string(saved, <<o1, o2, o3>>))
  /\ UNCHANGED <<saved, loaded>>
  /\ UNCHANGED not_kvars

\* main.rs 178-184: `json` reads the text and deserializes a Statistics.
json ==
  /\ IsSome(text)
  /\ loaded = None
  /\ loaded' = Some(from_str(text[1]))
  /\ UNCHANGED <<saved, text>>
  /\ UNCHANGED not_kvars

InitJson ==
  /\ saved \in StatisticsPool
  /\ text = None
  /\ loaded = None
  /\ IdleButJson

NextJson ==
  \/ RepoJson
  \/ json

SpecJson == InitJson /\ [][NextJson]_vars

(***************************************************************************)
(* all_issues and all_prs over a whole listing (lib.rs, repo.rs).          *)
(***************************************************************************)
\* The listing of the issues (or pull requests, pr) created on the days ds,
\* served in pages of sz items: every page but the last announces a further
\* page, and the cursor that follows page k is k.  A listing with no item is
\* one empty page.
Listing(ds, sz, pr) ==
  LET n == IF ds = <<>> THEN 1 ELSE (Len(ds) + sz - 1) \div sz
  IN  [k \in 1..n |->
         LET lo == (k - 1) * sz + 1
             hi == IF k * sz < Len(ds) THEN k * sz ELSE Len(ds)
         IN  OkPage([j \in 1..(hi - lo + 1) |-> RawItem(ds[lo + j - 1], lo + j - 1, pr)],
                    k < n,
                    IF ds = <<>> THEN None ELSE Some(k))]

\* The listings of at most MaxItems items in at most MaxPages pages, the
\* days of creation in any order.
Listings(pr) ==
  UNION {{Listing(ds, sz, pr) : ds \in {d \in DateSeqs(MaxItems) : Len(d) <= sz * MaxPages}} :
           sz \in 1..2}

\* lib.rs 551-568 over repo.rs 143-190: all_issues pages through the listing
\* and filters what the pager returned.
AllIssues ==
  /\ e_mode = "issues"
  /\ listed = None
  /\ listed' = Some(all_issues(e_start, e_end, issues_work(e_end, script)))
  /\ UNCHANGED <<e_mode, script, e_start, e_end>>
  /\ UNCHANGED not_evars

\* lib.rs 570-602 over repo.rs 143-190: all_prs does the same for pull requests.
AllPrs ==
  /\ e_mode = "prs"
  /\ listed = None
  /\ listed' = Some(all_prs(e_start, e_end, issues_work(e_end, script)))
  /\ UNCHANGED <<e_mode, script, e_start, e_end>>
  /\ UNCHANGED not_evars

InitEarly ==
  /\ e_mode \in Branches
  /\ script \in Listings(e_mode = "prs")
  /\ e_start \in Ends
  /\ e_end \in Ends
  /\ listed = None
  /\ IdleButEarly

NextEarly ==
  \/ AllIssues
  \/ AllPrs

SpecEarly == InitEarly /\ [][NextEarly]_vars

(***************************************************************************)
(* Properties of the issue / PR pager.                                     *)
(***************************************************************************)
\* Every request so far was answered by a page that decoded.
AllOk(rs) == \A k \in 1..Len(rs) : rs[k].kind = "ok"

\* The items of the pages received, in the order they were received.
Items(rs) == Flatten([k \in 1..Len(rs) |-> rs[k].edges])

\* The last response received.
LastResponse == responses[Len(responses)]

\* Is the last item of page r created after the `end` date?
LastPastEnd(r) ==
  IsSome(end) /\ r.edges # <<>> /\ r.edges[Len(r.edges)].created_at > end[1]

\* Is some item of page r created after the `end` date?
SomePastEnd(r) ==
  IsSome(end) /\ \E i \in 1..Len(r.edges) : r.edges[i].created_at > end[1]

\* C1 (pagination completeness): with no failure and no `end` date, the pager
\* goes on to the page of the source that announces no further page, and
\* returns every item of every page exactly once, in the server's order
\* (item i of the result is item i of the source), page by page.
PaginationComplete ==
  (ipc = "done" /\ end = None /\ AllOk(responses)) =>
     /\ ~(LastResponse.has_next_page /\ IsSome(LastResponse.end_cursor))
     /\ result = Ok(Items(responses))
     /\ \A i \in 1..Len(result.val) : result.val[i].id = i
     /\ Len(result.val) = Served(responses)

\* C1 witness: three non-empty pages were returned as three items.
PaginationCompleteWitness ==
  /\ ipc = "done" /\ end = None /\ AllOk(responses)
  /\ Len(responses) = 3
  /\ \A k \in 1..3 : responses[k].edges # <<>>
  /\ result.ok /\ Len(result.val) = 3

\* C2 as claimed: once a page holding ANY item created after `end` has been
\* fetched, no further page is fetched.
EarlyStopAnyItem ==
  \A k \in 1..Len(responses) :
     (responses[k].kind = "ok" /\ SomePastEnd(responses[k])) =>
        (Len(requests) = k /\ ipc = "done")

\* C2 as amended: once a page whose LAST item is created after `end` has been
\* fetched, no further page is fetched.
EarlyStopLastItem ==
  \A k \in 1..Len(responses) :
     (responses[k].kind = "ok" /\ LastPastEnd(responses[k])) =>
        (Len(requests) = k /\ ipc = "done")

\* C2 witness: the second page ends past `end` and announces a further page,
\* which is not fetched.
EarlyStopWitness ==
  /\ ipc = "done" /\ Len(responses) = 2 /\ AllOk(responses)
  /\ ~SomePastEnd(responses[1])
  /\ LastPastEnd(responses[2])
  /\ responses[2].has_next_page /\ IsSome(responses[2].end_cursor)

\* C3 (early stop discards nothing): when the pager stops because the last
\* page ends past `end`, it returns every item of every page it fetched, the
\* items past `end` included, in fetch order.
EarlyStopKeepsFetched ==
  (ipc = "done" /\ AllOk(responses) /\ LastPastEnd(LastResponse)
     /\ LastResponse.has_next_page /\ IsSome(LastResponse.end_cursor)) =>
        result = Ok(Items(responses))

\* C3 witness: an early stop on a second page of two items, one of them past `end`.
EarlyStopKeepsFetchedWitness ==
  /\ ipc = "done" /\ Len(responses) = 2 /\ AllOk(responses)
  /\ responses[1].edges # <<>>
  /\ Len(responses[2].edges) = 2
  /\ LastPastEnd(responses[2])
  /\ responses[2].has_next_page /\ IsSome(responses[2].end_cursor)
  /\ result.ok /\ Len(result.val) = 3

\* The condition under which a further page is asked for after page r.
FurtherPage(r) ==
  r.kind = "ok" /\ r.has_next_page /\ IsSome(r.end_cursor) /\ ~LastPastEnd(r)

\* C4 (continuation rule): the first request carries no cursor; every later
\* request follows a page with has_next_page, an end_cursor and no early stop,
\* and carries that page's end_cursor; one request is sent per page; a call is
\* pending exactly when the last page asks for a further one.
ContinuationRule ==
  /\ Len(requests) = Len(responses)
  /\ \A k \in 1..Len(requests) :
        IF k = 1 THEN requests[k] = None
        ELSE FurtherPage(responses[k - 1]) /\ requests[k] = responses[k - 1].end_cursor
  /\ IF responses = <<>> THEN ipc = "call" /\ page = None
     ELSE /\ (ipc = "call") <=> FurtherPage(LastResponse)
          /\ (ipc = "done") <=> ~FurtherPage(LastResponse)
          /\ ipc = "call" => page = LastResponse.end_cursor

\* C4 witness: three requests, the second and third carrying the cursors of
\* the first and second page.
ContinuationRuleWitness ==
  /\ ipc = "done" /\ Len(requests) = 3
  /\ requests[1] = None /\ requests[2] = Some(1) /\ requests[3] = Some(2)
  /\ LastResponse.kind = "ok" /\ LastResponse.has_next_page

\* C6 (no partial result): when the fetch of a page fails, repo::issues
\* returns that error, and none of the items fetched before it.
NoPartialResult ==
  (ipc = "done" /\ ~AllOk(responses)) =>
     /\ ~result.ok
     /\ result = Err(LastResponse.kind)
     /\ result.val = <<>>

\* C6 witness: the third request fails after two non-empty pages.
NoPartialResultWitness ==
  /\ ipc = "done" /\ Len(responses) = 3
  /\ responses[1].edges # <<>> /\ responses[2].edges # <<>>
  /\ responses[3].kind = "decode"
  /\ ~result.ok

\* Is response r a transport error (the POST failed, or reading its body did)?
TransportError(r) == r.kind \in {"post", "text"}

\* C9 as claimed: a transport error is retried, so when it is returned the
\* page it is about was requested more than once.
TransportErrorRetried ==
  (ipc = "done" /\ TransportError(LastResponse)) =>
     \E j \in 1..(Len(requests) - 1) : requests[j] = requests[Len(requests)]

\* C9, what issues_work does instead: a transport error is not retried.  The
\* request it answers is the last one, no page was requested twice, and
\* repo::issues returns the error.
TransportErrorNotRetried ==
  \A k \in 1..Len(responses) :
     TransportError(responses[k]) =>
        /\ k = Len(requests)
        /\ ipc = "done"
        /\ result = Err(responses[k].kind)
        /\ \A i, j \in 1..Len(requests) : i # j => requests[i] # requests[j]

\* C9 witness: the POST for the second page fails and the error is returned.
TransportErrorWitness ==
  /\ ipc = "done" /\ Len(responses) = 2
  /\ responses[2].kind = "post"
  /\ result = Err("post")

(***************************************************************************)
(* Properties of the user-search pager.                                    *)
(***************************************************************************)
\* Did the request sent last fail?
LastFailed == ulast.kind \in {"transport", "decode"}

\* C5 (page budget): never more than MAX_PAGES pages are fetched, and once
\* page number MAX_PAGES is fetched the pager has returned, whatever that
\* page says about a next page.
PageBudget ==
  /\ fetched <= MAX_PAGES
  /\ page_num <= MAX_PAGES
  /\ fetched = MAX_PAGES => upc = "done"

\* C5 witness: page MAX_PAGES announced a next page, with a cursor and a
\* last user who has followers, and the pager returned the users of
\* MAX_PAGES pages.
PageBudgetWitness ==
  /\ upc = "done" /\ fetched = MAX_PAGES
  /\ ulast.kind = "ok" /\ ulast.page_num = MAX_PAGES
  /\ ulast.has_next_page /\ IsSome(ulast.end_cursor)
  /\ LastHasFollowers(ulast.edges)
  /\ uresult.ok /\ Len(uresult.val) = 2 * MAX_PAGES

\* C7 (bounded retry): a page is asked for at most MAX_ATTEMPTS times; after
\* a failure with attempts left the same page is about to be asked for again;
\* after the MAX_ATTEMPTS-th failure in a row the pager has returned that error.
BoundedRetry ==
  /\ tries <= MAX_ATTEMPTS
  /\ attempts <= MAX_ATTEMPTS
  /\ (LastFailed /\ tries < MAX_ATTEMPTS) =>
        (upc = "call" /\ upage = ulast.page /\ page_num = ulast.page_num)
  /\ (LastFailed /\ tries >= MAX_ATTEMPTS) =>
        (upc = "done" /\ uresult = Err(ulast.kind))

\* C7 witness: the second page failed MAX_ATTEMPTS times and the error was returned.
BoundedRetryWitness ==
  /\ upc = "done" /\ tries = MAX_ATTEMPTS /\ page_num = 2
  /\ ulast.kind = "transport"
  /\ uresult = Err("transport")

\* C8 as claimed: in both pagers a response that fails to decode ends the
\* operation with that error; no further request is sent for the page.
DecodeErrorNeverRetried ==
  /\ \A k \in 1..Len(responses) :
        responses[k].kind = "decode" =>
           (k = Len(requests) /\ ipc = "done" /\ result = Err("decode"))
  /\ ulast.kind = "decode" => (upc = "done" /\ uresult = Err("decode"))

\* C27: a retried request carries the cursor and the page number of the
\* failed one and adds nothing to the result; after a page succeeds the next
\* page is asked for with the attempt counter at 1; so, with failures that
\* stay under the limit, the returned list is the pages that decoded, in
\* order, each once: what the same pages give with no failure at all.
RetryChangesNothing ==
  /\ [][/\ (LastFailed' /\ upc' = "call") =>
             /\ upage' = upage
             /\ page_num' = page_num
             /\ uframes' = uframes
             /\ attempts' = attempts + 1
        /\ (ulast'.kind = "ok" /\ upc' = "call") =>
             /\ page_num' = page_num + 1
             /\ attempts' = 1
             /\ uframes' = Append(uframes, ulast'.edges)]_vars
  /\ [](upc = "done" /\ uresult.ok =>
          /\ Len(uframes) = page_num - 1
          /\ Len(uresult.val) = 2 * Len(uframes) + Len(ulast.edges)
          /\ \A k \in 1..Len(uframes) :
               /\ uresult.val[2 * k - 1] = uframes[k][1]
               /\ uresult.val[2 * k] = uframes[k][2]
          /\ \A i \in 1..Len(ulast.edges) :
               uresult.val[2 * Len(uframes) + i] = ulast.edges[i]
          /\ \A i \in 1..Len(uresult.val) : uresult.val[i].login = i)

\* The third page decoded at its third attempt, and the users of three
\* pages were returned.
RetryChangesNothingWitness ==
  /\ upc = "done" /\ uresult.ok
  /\ page_num = 3 /\ tries = 3 /\ attempts = 3
  /\ Len(uresult.val) = 6

\* C28: every request brings the pager closer to its return: the requests
\* that can still be sent, MAX_PAGES * MAX_ATTEMPTS at the start, go down
\* with every request, so the pager returns after at most that many; it has
\* returned as soon as a fetched page is empty or ends with a user who has no
\* follower; and it does return.
AlwaysTerminates ==
  /\ [][LET left(pc, n, a) ==
              IF pc = "done" THEN 0
              ELSE (MAX_PAGES - n) * MAX_ATTEMPTS + (MAX_ATTEMPTS - a) + 1
        IN  /\ left(upc, page_num, attempts) <= MAX_PAGES * MAX_ATTEMPTS
            /\ left(upc', page_num', attempts') >= 0
            /\ left(upc', page_num', attempts') < left(upc, page_num, attempts)]_vars
  /\ [](ulast.kind = "ok"
          /\ (ulast.edges = <<>> \/ ulast.edges[Len(ulast.edges)].followers = 0)
        => upc = "done" /\ uresult.ok)
  /\ <>(upc = "done")

\* The pager returned at page MAX_PAGES - 1, whose last user has no
\* follower, although the page announced a further page.
AlwaysTerminatesWitness ==
  /\ upc = "done" /\ uresult.ok
  /\ page_num = MAX_PAGES - 1
  /\ ulast.kind = "ok" /\ ulast.has_next_page /\ IsSome(ulast.end_cursor)
  /\ ulast.edges # <<>> /\ ulast.edges[Len(ulast.edges)].followers = 0

(***************************************************************************)
(* Properties of the `repo` command.                                       *)
(***************************************************************************)
\* Both fetches of repository i have returned.
Fetched(i) == \A b \in Branches : IsSome(fetches[i][b])

\* Both fetches of repository i succeeded.
Succeeded(i) == fetches[i].issues[1].ok /\ fetches[i].prs[1].ok

\* The error of a repository that failed: that of the issues when they
\* failed, else that of the pull requests.
FailureOf(i) ==
  IF ~fetches[i].issues[1].ok THEN fetches[i].issues[1].err ELSE fetches[i].prs[1].err

\* The fetched items of repository i that are in the date range, or none
\* when the repository failed.
KeptOf(i, fetchd) ==
  IF Succeeded(i)
  THEN SelectSeq(fetchd.val, LAMBDA x : InDateRange(r_start, r_end, x))
  ELSE <<>>

\* The issues of the repositories that succeeded, in their order.
SucceededIssues ==
  Flatten([i \in 1..Len(repos) |->
             LET kept == KeptOf(i, fetches[i].issues[1])
             IN  [k \in 1..Len(kept) |-> issue_thread(kept[k])]])

\* The pull requests of the repositories that succeeded, in their order.
SucceededPrs ==
  Flatten([i \in 1..Len(repos) |->
             LET kept == KeptOf(i, fetches[i].prs[1])
             IN  [k \in 1..Len(kept) |-> pr_of(kept[k])]])

\* The repositories that failed, in their order.
FailedRepos == SelectSeq([i \in 1..Len(repos) |-> i], LAMBDA i : ~Succeeded(i))

\* C10: when `repo` has returned and at least one repository succeeded, both
\* fetches of every repository were made, the errors reported are those of
\* exactly the repositories that failed, and the command returned Ok with the
\* statistics of the combined Postings of the repositories that succeeded:
\* nothing of a failed repository is counted.
PartialFailure ==
  (rpc = "done" /\ repos # <<>> /\ \E i \in 1..Len(repos) : Fetched(i) /\ Succeeded(i)) =>
    /\ \A i \in 1..Len(repos) : Fetched(i) /\ IsSome(threads[i])
    /\ reported = [k \in 1..Len(FailedRepos) |-> FailureOf(FailedRepos[k])]
    /\ output.ok
    /\ output.val = statistics(Postings(SucceededIssues, SucceededPrs))
    /\ output.val.all_issues = Len(SucceededIssues)
    /\ output.val.all_prs = Len(SucceededPrs)

\* `repo` returned Ok although one repository failed with its issues fetched
\* and another with its issues not fetched, and a third gave issues and PRs.
PartialFailureWitness ==
  /\ rpc = "done"
  /\ ~r_serial
  /\ output.ok
  /\ Len(reported) >= 2
  /\ \E i \in 1..Len(repos) :
       fetches[i].issues[1].ok /\ fetches[i].issues[1].val # <<>> /\ ~fetches[i].prs[1].ok
  /\ \E i \in 1..Len(repos) : ~fetches[i].issues[1].ok
  /\ output.val.all_issues > 0
  /\ output.val.all_prs > 0

\* No fetch of any repository succeeded.
NoneSucceeded == \A i \in 1..Len(repos) : Fetched(i) /\ ~Succeeded(i)

\* C11: when `repo` has returned and no repository's fetch succeeded, which
\* includes that no repository was given, it returned an error and no
\* statistics; it returned Ok only when the fetch of some repository succeeded.
TotalFailure ==
  rpc = "done" =>
    /\ NoneSucceeded =>
         /\ ~output.ok
         /\ output.val = <<>>
         /\ output.err = IF repos = <<>> THEN "No repositories given!"
                         ELSE "No results to show!"
    /\ output.ok => \E i \in 1..Len(repos) : Fetched(i) /\ Succeeded(i)

\* `repo` returned after every one of several repositories failed, the
\* issues of one of them having been fetched.
TotalFailureWitness ==
  /\ rpc = "done"
  /\ Len(repos) >= 2
  /\ NoneSucceeded
  /\ \E i \in 1..Len(repos) : fetches[i].issues[1].ok /\ fetches[i].issues[1].val # <<>>
  /\ Len(reported) = Len(repos)
  /\ ~output.ok

(***************************************************************************)
(* Properties of repo_threads.                                             *)
(***************************************************************************)
\* The outcomes of the requests of fetch b, in the order they were sent.
OutcomesOf(b) == [k \in 1..Len(jlog[b]) |-> jlog[b][k].resp]

\* What serial mode returns for the outcomes the two fetches were given.
SerialPostings ==
  repo_threads(j_start, j_end,
               issues_work(j_end, OutcomesOf("issues")),
               issues_work(j_end, OutcomesOf("prs")))

\* C12: in non-serial mode, in every interleaving of the requests of the two
\* fetches, each fetch has collected the pages of its own requests and no
\* other, asks for each page with the cursor of its own previous page, and
\* returns what issues_work returns for its own outcomes; repo_threads
\* returns nothing before both fetches have returned, and then returns the
\* Postings or the error that serial mode returns for the same outcomes.
ParallelFetch ==
  ~serial =>
    /\ \A b \in Branches :
         /\ Len(jframes[b]) = Len(jlog[b]) - (IF jpc[b] = "done" THEN 1 ELSE 0)
         /\ jpc[b] # "done" =>
              jpage[b] = IF jlog[b] = <<>> THEN None ELSE jlog[b][Len(jlog[b])].resp.end_cursor
         /\ \A k \in 1..Len(jframes[b]) : jframes[b][k] = jlog[b][k].resp.edges
         /\ \A k \in 1..Len(jlog[b]) :
              jlog[b][k].page = IF k = 1 THEN None ELSE jlog[b][k - 1].resp.end_cursor
         /\ jpc[b] = "done" => jresult[b] = issues_work(j_end, OutcomesOf(b))
    /\ (\E b \in Branches : jpc[b] # "done") => postings = Err("pending")
    /\ postings # Err("pending") => postings = SerialPostings

\* repo_threads returned Postings with issues and pull requests in non-serial
\* mode, after the two fetches took turns in sending their requests and a
\* request of one was sent while a request of the other was not answered.
ParallelFetchWitness ==
  /\ ~serial
  /\ postings.ok
  /\ order.switches >= 3
  /\ order.overlapped
  /\ \A b \in Branches : Len(jlog[b]) >= 2
  /\ postings.val.issues # <<>>
  /\ postings.val.prs # <<>>

(***************************************************************************)
(* Properties of issue_thread.                                             *)
(***************************************************************************)
\* The comments of the issue given.
GivenComments == t_issue.comments

\* The first of the indices ks, as an Option.
FirstOf(ks) == IF ks = {} THEN None ELSE Some(CHOOSE k \in ks : \A j \in ks : k <= j)

\* The opener of the thread wrote comment c: both have the same account.
\* The owner of a deleted account is not known.
ByOpener(c) == IsSome(c.author) /\ c.author = t_issue.author

\* The first comment that the opener of the thread did not write.
FirstByOther == FirstOf({k \in 1..Len(GivenComments) : ~ByOpener(GivenComments[k])})

\* C13: first_responder and first_response of the Thread are those of the
\* first comment whose author is not the opener of the thread, whatever the
\* associations of the comments are, and are absent when every comment is
\* the opener's.
AuthorSkip ==
  IsSome(thread) =>
    IF IsSome(FirstByOther)
    THEN /\ thread[1].first_responder =
              Some(IF IsSome(GivenComments[FirstByOther[1]].author)
                   THEN GivenComments[FirstByOther[1]].author[1] ELSE "@ghost")
         /\ thread[1].first_response = Some(GivenComments[FirstByOther[1]].created_at)
    ELSE thread[1].first_responder = None /\ thread[1].first_response = None

\* The associations of the official responders.
OfficialAssociations == {"OWNER", "MEMBER", "COLLABORATOR"}

\* The first comment whose association is official.
FirstOfficial ==
  FirstOf({k \in 1..Len(GivenComments) :
             GivenComments[k].author_association \in OfficialAssociations})

\* C14: first_official_response of the Thread is the time of the first
\* comment, counted from the start of the list, whose association is Owner,
\* Member or Collaborator, and is absent when there is none; when the first
\* of two comments is by an unofficial responder and the second is official,
\* first_response is the time of the first and first_official_response that
\* of the second.
OfficialResponse ==
  IsSome(thread) =>
    /\ thread[1].first_official_response =
         IF IsSome(FirstOfficial) THEN Some(GivenComments[FirstOfficial[1]].created_at)
         ELSE None
    /\ ( /\ Len(GivenComments) = 2
         /\ GivenComments[1].author_association \in {"CONTRIBUTOR", "NONE"}
         /\ GivenComments[2].author_association \in OfficialAssociations )
       => /\ thread[1].first_response = Some(GivenComments[1].created_at)
          /\ thread[1].first_official_response = Some(GivenComments[2].created_at)

\* issue_thread returned for the comments [unofficial at day 1, collaborator at day 2].
OfficialResponseWitness ==
  /\ IsSome(thread)
  /\ Len(GivenComments) = 2
  /\ GivenComments[1].author_association = "NONE"
  /\ GivenComments[1].created_at = 1
  /\ GivenComments[2].author_association = "COLLABORATOR"
  /\ GivenComments[2].created_at = 2
  /\ thread[1].first_response = Some(1)
  /\ thread[1].first_official_response = Some(2)

\* The comments of the issue given are in non-decreasing order of created_at.
Chronological ==
  \A k \in 1..(Len(GivenComments) - 1) :
     GivenComments[k].created_at <= GivenComments[k + 1].created_at

\* C15: a Thread made from comments in non-decreasing order of created_at
\* that has a first_official_response has a first_response too, which is
\* not later than the official one.
ThreadInvariant ==
  (IsSome(thread) /\ Chronological /\ IsSome(thread[1].first_official_response)) =>
    /\ IsSome(thread[1].first_response)
    /\ thread[1].first_response[1] <= thread[1].first_official_response[1]

\* issue_thread returned a Thread whose first response, by a contributor, is
\* a day earlier than its official response.
ThreadInvariantWitness ==
  /\ IsSome(thread)
  /\ Chronological
  /\ Len(GivenComments) = 2
  /\ GivenComments[1].author_association = "CONTRIBUTOR"
  /\ IsSome(thread[1].first_response)
  /\ IsSome(thread[1].first_official_response)
  /\ thread[1].first_response[1] < thread[1].first_official_response[1]

\* The key an author is counted under: the login, or the ghost key of a missing author.
KeyOf(author) == IF author = None THEN "@ghost" ELSE author[1]

RECURSIVE SumOver(_, _)
\* The sum of the values of the map m at the keys ks.
SumOver(m, ks) ==
  IF ks = {} THEN 0
  ELSE LET k == CHOOSE x \in ks : TRUE
       IN  m[k] + SumOver(m, ks \ {k})

\* C16: the `comments` map of the Thread has a key for exactly the authors of
\* the comments, a missing author being the ghost key, and counts every
\* comment once under the key of its author: its values sum to the number
\* of comments, and it is empty for no comment.  A missing opener is the
\* ghost author.
GhostFallback ==
  IsSome(thread) =>
    LET m == thread[1].comments
    IN  /\ DOMAIN m = {KeyOf(GivenComments[k].author) : k \in 1..Len(GivenComments)}
        /\ \A key \in DOMAIN m :
             m[key] = Cardinality({k \in 1..Len(GivenComments) :
                                     KeyOf(GivenComments[k].author) = key})
        /\ SumOver(m, DOMAIN m) = Len(GivenComments)
        /\ GivenComments = <<>> => DOMAIN m = {}
        /\ thread[1].author = KeyOf(t_issue.author)

\* issue_thread returned for an issue without opener whose comments are one
\* by a missing author and one by a known author.
GhostFallbackWitness ==
  /\ IsSome(thread)
  /\ t_issue.author = None
  /\ thread[1].author = "@ghost"
  /\ Len(GivenComments) = 2
  /\ GivenComments[1].author = None
  /\ GivenComments[2].author = Some("bob")
  /\ thread[1].comments["@ghost"] = 1
  /\ thread[1].comments["bob"] = 1

(***************************************************************************)
(* Properties of Postings::statistics.                                     *)
(***************************************************************************)
\* The optional event and the posting time of every thread that the
\* distribution d is taken over.
EventsOf(d) ==
  IF d = "issue_first_resp_time"
  THEN [i \in 1..Len(given.issues) |->
          <<given.issues[i].first_response, given.issues[i].posted>>]
  ELSE IF d = "issue_official_first_resp_time"
  THEN [i \in 1..Len(given.issues) |->
          <<given.issues[i].first_official_response, given.issues[i].posted>>]
  ELSE IF d = "pr_first_resp_time"
  THEN [i \in 1..Len(given.prs) |->
          <<given.prs[i].thread.first_response, given.prs[i].thread.posted>>]
  ELSE IF d = "pr_official_first_resp_time"
  THEN [i \in 1..Len(given.prs) |->
          <<given.prs[i].thread.first_official_response, given.prs[i].thread.posted>>]
  ELSE [i \in 1..Len(given.prs) |-> <<given.prs[i].merged, given.prs[i].thread.posted>>]

\* The durations of the distribution d, in the order of the threads.
DurationsOf(d) ==
  LET with == SelectSeq(EventsOf(d), LAMBDA e : e[1] # None)
  IN  [i \in 1..Len(with) |-> with[i][1][1] - with[i][2]]

\* The durations ds are not empty and none is negative.
NonNegative(ds) == ds # <<>> /\ \A i \in 1..Len(ds) : ds[i] >= 0

\* The duration at index r, counted from 0, of ds in ascending order: at
\* most r durations are smaller, and more than r are not larger.
RankedAt(ds, r) ==
  CHOOSE v \in {ds[i] : i \in 1..Len(ds)} :
    /\ Cardinality({i \in 1..Len(ds) : ds[i] < v}) <= r
    /\ Cardinality({i \in 1..Len(ds) : ds[i] <= v}) > r

\* The distribution d of the Statistics returned.
Returned(d) == stats[1][d]

\* C17: for non-negative durations the median of a distribution is the
\* duration at index len/2 of the ascending order, the upper of the two
\* middle ones for an even number: 120 for 60, 120, 300 and for 60, 120.
MedianRule ==
  IsSome(stats) =>
    \A d \in Distributions :
      LET ds == DurationsOf(d)
      IN  NonNegative(ds) =>
            /\ IsSome(Returned(d))
            /\ Returned(d)[1].median = U64(RankedAt(ds, Len(ds) \div 2))
            /\ (Len(ds) = 3 /\ {ds[i] : i \in 1..3} = {60, 120, 300})
                 => Returned(d)[1].median = U64(120)
            /\ (Len(ds) = 2 /\ {ds[i] : i \in 1..2} = {60, 120})
                 => Returned(d)[1].median = U64(120)

\* statistics returned the median 120 for the durations 120, 60 of the pull
\* requests' first responses.
MedianRuleWitness ==
  /\ IsSome(stats)
  /\ DurationsOf("pr_first_resp_time") = <<120, 60>>
  /\ IsSome(Returned("pr_first_resp_time"))
  /\ Returned("pr_first_resp_time")[1].median = U64(120)

RECURSIVE Total(_)
\* The sum of the durations ds.
Total(ds) == IF ds = <<>> THEN 0 ELSE ds[1] + Total(Tail(ds))

\* C18: for non-negative durations the mean of a distribution is the sum of
\* the durations in seconds divided by their number, rounded down: 160 for
\* 60, 120, 300.  It is not below the smallest and not above the largest
\* duration.
MeanRule ==
  IsSome(stats) =>
    \A d \in Distributions :
      LET ds == DurationsOf(d)
          mean == Total(ds) \div Len(ds)
      IN  NonNegative(ds) =>
            /\ IsSome(Returned(d))
            /\ Returned(d)[1].mean = U64(mean)
            /\ \E i \in 1..Len(ds) : ds[i] <= mean
            /\ \E i \in 1..Len(ds) : mean <= ds[i]
            /\ (Len(ds) = 3 /\ {ds[i] : i \in 1..3} = {60, 120, 300})
                 => Returned(d)[1].mean = U64(160)

\* statistics returned the mean 160 for the durations 300, 60, 120 of the
\* issues' first responses.
MeanRuleWitness ==
  /\ IsSome(stats)
  /\ DurationsOf("issue_first_resp_time") = <<300, 60, 120>>
  /\ IsSome(Returned("issue_first_resp_time"))
  /\ Returned("issue_first_resp_time")[1].mean = U64(160)

\* C19: a distribution over threads of which none has the event (no first
\* response, no official response, no merge) is None in the Statistics,
\* and not a distribution of zeros; this holds for each of the five.
EmptyDistribution ==
  IsSome(stats) =>
    \A d \in Distributions : DurationsOf(d) = <<>> => Returned(d) = None

\* statistics returned for pull requests that were merged and never
\* answered: the merge times are there and the response times are None.
EmptyDistributionWitness ==
  /\ IsSome(stats)
  /\ Len(given.prs) >= 2
  /\ Len(DurationsOf("pr_merge_time")) = Len(given.prs)
  /\ IsSome(Returned("pr_merge_time"))
  /\ DurationsOf("pr_first_resp_time") = <<>>
  /\ Returned("pr_first_resp_time") = None
  /\ Returned("pr_official_first_resp_time") = None
  /\ Returned("issue_first_resp_time") = None

\* The largest of the durations ds.
Largest(ds) == CHOOSE v \in {ds[i] : i \in 1..Len(ds)} : \A i \in 1..Len(ds) : ds[i] <= v

\* The u64 u is at most the natural number n (n < 2^31).
AtMost(u, n) == u[1] = 0 /\ u[2] = 0 /\ u[3] * Limb + u[4] <= n

\* C20: when some duration of a distribution is negative, the distribution
\* is still returned, with the median and the mean taken over all the
\* durations, the negative ones included: the median is the duration at
\* index len/2 of the ascending order, the mean is the sum divided by the
\* number, and no mean is above the largest duration.
NegativePassThrough ==
  IsSome(stats) =>
    \A d \in Distributions :
      LET ds == DurationsOf(d)
          median == RankedAt(ds, Len(ds) \div 2)
          mean == Total(ds) \div Len(ds)
      IN  (ds # <<>> /\ \E i \in 1..Len(ds) : ds[i] < 0) =>
            /\ IsSome(Returned(d))
            /\ median >= 0 => Returned(d)[1].median = U64(median)
            /\ Total(ds) >= 0 => Returned(d)[1].mean = U64(mean)
            /\ Largest(ds) >= 0 => AtMost(Returned(d)[1].mean, Largest(ds))

(***************************************************************************)
(* Properties of Postings::combine and of the statistics of its result.    *)
(***************************************************************************)
\* The count the map m holds for the key k, a missing key counting as 0.
CountIn(m, k) == IF k \in DOMAIN m THEN m[k] ELSE 0

\* The Postings with no issue and no pull request.
EmptyPostings == Postings(<<>>, <<>>)

\* s holds the elements of a in their order, followed by those of b in theirs.
Follows(s, a, b) ==
  /\ Len(s) = Len(a) + Len(b)
  /\ \A i \in 1..Len(a) : s[i] = a[i]
  /\ \A i \in 1..Len(b) : s[Len(a) + i] = b[i]

\* C21: the combined Postings hold the issues of the first Postings followed
\* by those of the second, and the same for the pull requests; their
\* statistics count |a.issues| + |b.issues| issues and |a.prs| + |b.prs| pull
\* requests, and give every commenter the sum of the counts the statistics of
\* the two Postings give; combining with the empty Postings changes nothing.
MergeWithoutDoubleCounting ==
  /\ IsSome(combined) =>
       /\ Follows(combined[1].issues, c_self.issues, c_other.issues)
       /\ Follows(combined[1].prs, c_self.prs, c_other.prs)
       /\ (c_self = EmptyPostings => combined[1] = c_other)
       /\ (c_other = EmptyPostings => combined[1] = c_self)
  /\ IsSome(cstats) =>
       LET sa == statistics(c_self)
           sb == statistics(c_other)
       IN  /\ cstats[1].all_issues = Len(c_self.issues) + Len(c_other.issues)
           /\ cstats[1].all_prs = Len(c_self.prs) + Len(c_other.prs)
           /\ DOMAIN cstats[1].commentors = DOMAIN sa.commentors \cup DOMAIN sb.commentors
           /\ \A k \in DOMAIN cstats[1].commentors :
                cstats[1].commentors[k] = CountIn(sa.commentors, k) + CountIn(sb.commentors, k)

\* Two Postings that both hold issues and pull requests and share a commenter
\* have been combined, and the statistics of the result have been computed.
MergeWithoutDoubleCountingWitness ==
  /\ IsSome(cstats)
  /\ c_self.issues # <<>> /\ c_self.prs # <<>>
  /\ c_other.issues # <<>> /\ c_other.prs # <<>>
  /\ c_self # c_other
  /\ "bob" \in DOMAIN statistics(c_self).commentors
  /\ "bob" \in DOMAIN statistics(c_other).commentors
  /\ cstats[1].commentors["bob"] > statistics(c_self).commentors["bob"]

\* The comment counts of every thread of the Postings p, issue threads first.
CommentMaps(p) ==
  [i \in 1..Len(p.issues) |-> p.issues[i].comments]
    \o [i \in 1..Len(p.prs) |-> p.prs[i].thread.comments]

\* The number of comments the map m counts.
CommentsIn(m) == SumOver(m, DOMAIN m)

\* C22: hashmap_combine(a, b) has the keys of a and of b and maps each to
\* a[k] + b[k], a missing key counting as 0; so Statistics.commentors maps
\* every author to the sum of the author's counts over all issue threads and
\* all PR threads, and its values sum to the total number of comments.
CommentorTotals ==
  IsSome(cstats) =>
    LET ms == CommentMaps(combined[1])
        commentors == cstats[1].commentors
    IN  /\ \A i, j \in 1..Len(ms) :
             LET c == hashmap_combine(ms[i], ms[j])
             IN  /\ DOMAIN c = DOMAIN ms[i] \cup DOMAIN ms[j]
                 /\ \A k \in DOMAIN c : c[k] = CountIn(ms[i], k) + CountIn(ms[j], k)
        /\ DOMAIN commentors = UNION {DOMAIN ms[i] : i \in 1..Len(ms)}
        /\ \A k \in DOMAIN commentors :
             commentors[k] = Sum([i \in 1..Len(ms) |-> CountIn(ms[i], k)])
        /\ CommentsIn(commentors) = Sum([i \in 1..Len(ms) |-> CommentsIn(ms[i])])

\* The statistics cover an issue thread and a PR thread that share a
\* commenter, and a commenter that only one thread has.
CommentorTotalsWitness ==
  /\ IsSome(cstats)
  /\ \E i \in 1..Len(combined[1].issues), j \in 1..Len(combined[1].prs) :
       LET x == combined[1].issues[i].comments
           y == combined[1].prs[j].thread.comments
       IN  /\ DOMAIN x \cap DOMAIN y # {}
           /\ DOMAIN x \ DOMAIN y # {}
           /\ DOMAIN y \ DOMAIN x # {}
  /\ \E k \in DOMAIN cstats[1].commentors : cstats[1].commentors[k] >= 4

\* The merged pull requests of the Postings p that `author` opened.
MergedBy(p, author) ==
  SelectSeq(p.prs, LAMBDA pr : IsSome(pr.merged) /\ pr.thread.author = author)

\* C23: code_contributors has as keys exactly the authors of at least one
\* merged PR and maps each to the number of that author's merged PRs, its
\* values summing to prs_merged; contributor_commits has the same keys and
\* maps each author to the sum of `commits` over that author's merged PRs.
CodeContributors ==
  IsSome(cstats) =>
    LET p == combined[1]
        s == cstats[1]
        authors == {p.prs[i].thread.author : i \in {j \in 1..Len(p.prs) : IsSome(p.prs[j].merged)}}
    IN  /\ DOMAIN s.code_contributors = authors
        /\ \A a \in authors : s.code_contributors[a] = Len(MergedBy(p, a))
        /\ SumOver(s.code_contributors, authors) = s.prs_merged
        /\ DOMAIN s.contributor_commits = authors
        /\ \A a \in authors :
             s.contributor_commits[a] =
               Sum([i \in 1..Len(MergedBy(p, a)) |-> MergedBy(p, a)[i].commits])

\* The statistics cover an author with two merged PRs of three commits in
\* all, an author whose only PRs are unmerged, and a second merged author.
CodeContributorsWitness ==
  /\ IsSome(cstats)
  /\ "alice" \in DOMAIN cstats[1].code_contributors
  /\ cstats[1].code_contributors["alice"] = 2
  /\ cstats[1].contributor_commits["alice"] = 3
  /\ "@ghost" \in DOMAIN cstats[1].code_contributors
  /\ "bob" \notin DOMAIN cstats[1].code_contributors
  /\ \E i \in 1..Len(combined[1].prs) : combined[1].prs[i].thread.author = "bob"

\* The number of pull requests of the Postings p with the outcome `closed`
\* (closed present) and `merged` (merge timestamp present).
PRsWith(p, closed, merged) ==
  Cardinality({i \in 1..Len(p.prs) :
                 /\ IsSome(p.prs[i].thread.closed) = closed
                 /\ IsSome(p.prs[i].merged) = merged})

\* C24: prs_merged counts the PRs with a merge timestamp and
\* prs_closed_without_merging those with closed present and merged absent; no
\* PR is counted in both, so the two add up to at most all_prs, and to the
\* number of closed PRs when every merged PR is also closed.
PROutcomeCounts ==
  IsSome(cstats) =>
    LET p == combined[1]
        s == cstats[1]
    IN  /\ s.prs_merged = PRsWith(p, TRUE, TRUE) + PRsWith(p, FALSE, TRUE)
        /\ s.prs_closed_without_merging = PRsWith(p, TRUE, FALSE)
        /\ \A i \in 1..Len(p.prs) : ~(is_merged(p.prs[i]) /\ is_closed_not_merged(p.prs[i]))
        /\ s.prs_merged + s.prs_closed_without_merging <= s.all_prs
        /\ PRsWith(p, FALSE, TRUE) = 0 =>
             s.prs_merged + s.prs_closed_without_merging
               = PRsWith(p, TRUE, TRUE) + PRsWith(p, TRUE, FALSE)

\* The statistics cover a merged PR, a PR closed without merging and an open
\* PR, and every merged PR is closed.
PROutcomeCountsWitness ==
  /\ IsSome(cstats)
  /\ PRsWith(combined[1], TRUE, TRUE) >= 2
  /\ PRsWith(combined[1], TRUE, FALSE) >= 1
  /\ PRsWith(combined[1], FALSE, FALSE) >= 1
  /\ PRsWith(combined[1], FALSE, TRUE) = 0
  /\ cstats[1].prs_merged + cstats[1].prs_closed_without_merging < cstats[1].all_prs

(***************************************************************************)
(* Properties of Statistics as JSON.                                       *)
(***************************************************************************)
\* C25: deserializing the JSON that a Statistics was serialized to succeeds
\* and gives a value equal field for field: all counts, all three maps and
\* all five optional ResponseTimes.
RoundTrip ==
  IsSome(loaded) =>
    /\ loaded[1].ok
    /\ DOMAIN loaded[1].val = DOMAIN saved
    /\ \A f \in DOMAIN saved : loaded[1].val[f] = saved[f]

\* A Statistics with several commenters, commits of merged PRs, a present
\* and an absent ResponseTimes, and a duration of more than one digit has
\* been written and read back.
RoundTripWitness ==
  /\ IsSome(loaded)
  /\ Cardinality(DOMAIN saved.commentors) >= 3
  /\ Cardinality(DOMAIN saved.contributor_commits) >= 2
  /\ IsSome(saved.issue_first_resp_time)
  /\ saved.issue_first_resp_time[1].median = U64(120)
  /\ saved.pr_official_first_resp_time = None
  /\ saved.all_prs >= 5

(***************************************************************************)
(* Properties of all_issues and all_prs over a whole listing.              *)
(***************************************************************************)
\* The issues of the listing, page after page.
Listed == Flatten([k \in 1..Len(script) |-> script[k].edges])

\* The server lists the issues in ascending order of creation.
Ascending == \A i, j \in 1..Len(Listed) : i <= j => Listed[i].created_at <= Listed[j].created_at

\* The pager stopped before the last page of the listing.
StoppedEarly == Len(issues_work(e_end, script).val) < Len(Listed)

\* The time a returned thread was posted.
PostedOf(t) == IF e_mode = "prs" THEN t.thread.posted ELSE t.posted

\* C26: when the server lists the items in ascending order of creation,
\* what all_issues / all_prs returns for (start, end) after the early-stopping
\* pager and the date filter is what paging through the whole listing and
\* applying the same filter gives; every returned thread was posted inside
\* [start, end], both ends included.
EarlyStopEquivalence ==
  IsSome(listed) =>
    /\ listed[1].ok
    /\ \A i \in 1..Len(listed[1].val) :
         /\ IsSome(e_start) => PostedOf(listed[1].val[i]) >= e_start[1]
         /\ IsSome(e_end) => PostedOf(listed[1].val[i]) <= e_end[1]
    /\ Ascending =>
         LET inside == SelectSeq(Listed, LAMBDA i :
                         /\ IsSome(e_start) => i.created_at >= e_start[1]
                         /\ IsSome(e_end) => i.created_at <= e_end[1])
         IN  listed[1].val =
               [k \in 1..Len(inside) |->
                  IF e_mode = "prs" THEN pr_of(inside[k]) ELSE issue_thread(inside[k])]

\* The pager stopped early over an ascending listing of three pages: an
\* issue created at `end` was returned, and an issue that was fetched was
\* filtered out.
EarlyStopEquivalenceWitness ==
  /\ IsSome(listed)
  /\ Ascending
  /\ StoppedEarly
  /\ Len(script) >= 3
  /\ IsSome(e_start) /\ IsSome(e_end)
  /\ \E i \in 1..Len(listed[1].val) : PostedOf(listed[1].val[i]) = e_end[1]
  /\ Len(issues_work(e_end, script).val) > Len(listed[1].val)

====
